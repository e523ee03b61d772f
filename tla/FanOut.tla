-------------------------------- MODULE FanOut --------------------------------
(***************************************************************************)
(* One job's units spread over pods: plan, prepare, one run-unit per pod,  *)
(* reconcile (the CLI primitives of td2hive/cli.py over JobRunner), driven *)
(* by an orchestrator that retries pods and may run the workflow again.    *)
(* Pods share object storage and the directory of result files; there is   *)
(* no manifest here.  The constants below tell the three orchestrators     *)
(* shipped with the repository apart (k8s/, integrations/).                *)
(***************************************************************************)
EXTENDS Layout

CONSTANTS
  Dynamic,       \* TRUE iff the job has dynamic partition columns
  Prepares,      \* the workflow has a prepare step (Argo, Airflow; not k8s/)
  WaitsForAll,   \* reconcile needs every pod to succeed (k8s/run-all.sh);
                 \* FALSE for Argo's onExit and Airflow's all_done
  OneResultFile, \* every pod writes the same result file (Airflow example)
  MaxRetries,    \* pod retries per workflow (backoffLimit)
  MaxRuns,       \* bound on runs of the whole workflow
  FaultKinds,    \* what the environment of this instance may do
  MaxFaults      \* bound on how often it does

AllFaults == {"pod", "delete", "lie", "register", "count"}

ASSUME FanOutAssumption ==
  /\ {Dynamic, Prepares, WaitsForAll, OneResultFile} \subseteq BOOLEAN
  /\ MaxRetries \in Nat /\ MaxRuns \in Nat /\ MaxFaults \in Nat
  /\ FaultKinds \subseteq AllFaults

VARIABLES
  step,       \* the workflow's step
  runs,       \* workflows started so far
  paths,      \* paths still to clear (prepare) or to register (reconcile)
  made,       \* paths that exist for hdfswriter (have a marker object)
  pod,        \* pod[u]: what the pod of unit u has done
  retries,    \* pod retries left in this workflow
  results,    \* result files: result[u] is "none", "torn" or "whole"
  obs,        \* copies of each row under its path
  registered, \* paths the metastore has a partition for
  status,     \* what reconcile of this workflow, or of the last one, recorded
  surplus,    \* history: rows the last prepare of their path left there
  withheld,   \* history: silent faults of this workflow that hide rows
  faults

history == <<surplus, withheld>>

vars == <<step, runs, paths, made, pod, retries, results, obs, registered,
          status, history, faults>>

Steps     == {"prepare", "fanout", "register", "verify", "done"}
PodStates == {"waiting", "exported", "written", "reported", "failed"}

PlannedUnits == IF Dynamic THEN {UnitOf[r] : r \in Rows} ELSE Units

Reported == {u \in Units : results[u] # "none"}

\* the paths prepare clears
PathsToClearUnknown ==                                  \* mutant
  {PathOf[u] : u \in PlannedUnits} \ registered
PathsToClear == {PathOf[u] : u \in PlannedUnits}

\* hdfswriter in append mode
ReplacePath(u, S) ==                                    \* mutant
  obs' = AfterLanding(AfterClearing(obs, PathOf[u], {}), S)
Append(u, S) == obs' = AfterLanding(obs, S)

\* source_where: only the values reconcile has a result for
SourceScope ==
  IF Dynamic THEN {r \in Rows : PathOf[UnitOf[r]] \in {PathOf[u] : u \in Reported}}
             ELSE Rows

HiveCountOfFiles == VisibleCount(obs, Paths)            \* mutant
HiveCount == VisibleCount(obs, registered)

\* one more result file; with a single name, the only one
SaveResult(u, state) ==
  results' = IF OneResultFile
               THEN [w \in Units |-> IF w = u THEN state ELSE "none"]
               ELSE [results EXCEPT ![u] = state]

\* delete_prefix on one path, of which the rows of K remain
Clear(p, K) ==
  /\ obs' = AfterClearing(obs, p, K)
  /\ surplus' = (surplus \ RowsAt(p)) \cup {r \in K : obs[r] >= 1}

Fault(kind) ==
  kind \in FaultKinds /\ faults < MaxFaults /\ faults' = faults + 1

\* plan has listed the units; the pods start over, result files stay
Begin(n) ==
  /\ step' = IF Prepares THEN "prepare" ELSE "fanout"
  /\ runs' = n
  /\ paths' = IF Prepares THEN PathsToClear ELSE {}
  /\ pod' = [u \in Units |-> "waiting"]
  /\ retries' = MaxRetries /\ status' = "none" /\ withheld' = {}

\* some paths may have been prepared before, by hand
Init ==
  /\ made \in SUBSET Paths
  /\ step = "done" /\ runs = 0 /\ paths = {}
  /\ pod = [u \in Units |-> "waiting"] /\ retries = MaxRetries
  /\ results = [u \in Units |-> "none"]
  /\ obs = NoCopies /\ registered = {} /\ status = "none"
  /\ surplus = {} /\ withheld = {} /\ faults = 0

StartWorkflow ==
  /\ step = "done" /\ runs < MaxRuns
  /\ Begin(runs + 1)
  /\ UNCHANGED <<made, results, obs, registered, surplus, faults>>

----------------------------------------------------------------------------
(* prepare: once, before the fan-out *)

ClearPath(p) ==
  /\ step = "prepare" /\ p \in paths
  /\ Clear(p, {})
  /\ made' = made \cup {p}
  /\ paths' = paths \ {p}
  /\ UNCHANGED <<step, runs, pod, retries, results, registered, status, withheld,
                 faults>>

\* delete_objects answers with per-key errors, which delete_prefix does not read
ClearPathLeavesRows(p, K) ==
  /\ step = "prepare" /\ p \in paths
  /\ Fault("delete")
  /\ Clear(p, K)
  /\ made' = made \cup {p}
  /\ paths' = paths \ {p}
  /\ UNCHANGED <<step, runs, pod, retries, results, registered, status, withheld>>

\* a request of prepare fails, or its pod dies, and the marker of the path may
\* be gone: no pod of the fan-out is started
PrepareDies(p, K) ==
  /\ step = "prepare" /\ p \in paths
  /\ Fault("pod")
  /\ obs' = AfterClearing(obs, p, K)
  /\ made' \in {made, made \ {p}}
  /\ paths' = {}
  /\ pod' = [u \in Units |-> "failed"]
  /\ step' = "fanout"
  /\ UNCHANGED <<runs, retries, results, registered, status, history>>

FanOut ==
  /\ step = "prepare" /\ paths = {}
  /\ step' = "fanout"
  /\ UNCHANGED <<runs, paths, made, pod, retries, results, obs, registered,
                 status, history, faults>>

----------------------------------------------------------------------------
(* run-unit, one pod per planned unit *)

Running(u, s) == step = "fanout" /\ u \in PlannedUnits /\ pod[u] = s

Export(u) ==
  /\ Running(u, "waiting")
  /\ pod' = [pod EXCEPT ![u] = "exported"]
  /\ UNCHANGED <<step, runs, paths, made, retries, results, obs, registered,
                 status, history, faults>>

Write(u) ==
  /\ Running(u, "exported") /\ PathOf[u] \in made
  /\ Append(u, RowsOf(u))
  /\ pod' = [pod EXCEPT ![u] = "written"]
  /\ UNCHANGED <<step, runs, paths, made, retries, results, registered, status,
                 history, faults>>

\* DataX reports success, but not every row is there
WriteDropsRows(u, S) ==
  /\ Running(u, "exported") /\ PathOf[u] \in made
  /\ Fault("lie") /\ S # RowsOf(u)
  /\ Append(u, S)
  /\ pod' = [pod EXCEPT ![u] = "written"]
  /\ withheld' = withheld \cup {"lie"}
  /\ UNCHANGED <<step, runs, paths, made, retries, results, registered, status,
                 surplus>>

\* a pod that exits with an error is started again from scratch while there
\* are retries
FailForever(u) ==                                       \* mutant
  retries' = retries /\ pod' = [pod EXCEPT ![u] = "waiting"]
FailUncounted(u) ==                                     \* mutant
  retries' = retries - 1 /\ pod' = [pod EXCEPT ![u] = "waiting"]
Fail(u) ==
  IF retries > 0
    THEN retries' = retries - 1 /\ pod' = [pod EXCEPT ![u] = "waiting"]
    ELSE retries' = retries /\ pod' = [pod EXCEPT ![u] = "failed"]

\* hdfswriter refuses a path that does not exist
WriteRefused(u) ==
  /\ Running(u, "exported") /\ PathOf[u] \notin made
  /\ Fail(u)
  /\ UNCHANGED <<step, runs, paths, made, results, obs, registered, status,
                 history, faults>>

\* DataX fails or the pod dies, with the rows of S already appended
DieBeforeWritten(u, S) ==
  /\ Running(u, "waiting") \/ Running(u, "exported")
  /\ S # {} => pod[u] = "exported" /\ PathOf[u] \in made
  /\ Fault("pod")
  /\ Append(u, S)
  /\ Fail(u)
  /\ UNCHANGED <<step, runs, paths, made, results, registered, status, history>>

\* the pod dies before or while it writes its result file
DieReporting(u, torn) ==
  /\ Running(u, "written")
  /\ Fault("pod")
  /\ IF torn THEN SaveResult(u, "torn") ELSE UNCHANGED results
  /\ Fail(u)
  /\ UNCHANGED <<step, runs, paths, made, obs, registered, status, history>>

WriteResult(u) ==
  /\ Running(u, "written")
  /\ pod' = [pod EXCEPT ![u] = "reported"]
  /\ SaveResult(u, "whole")
  /\ UNCHANGED <<step, runs, paths, made, retries, obs, registered, status,
                 history, faults>>

----------------------------------------------------------------------------
(* reconcile *)

PodsEnded == \A u \in PlannedUnits : pod[u] \in {"reported", "failed"}
AllPodsReported == \A u \in PlannedUnits : pod[u] = "reported"

\* what reconcile waits for
MayReconcileEarly == TRUE                               \* mutant
MayReconcile == PodsEnded /\ (WaitsForAll => AllPodsReported)

\* reads every result file and registers the partitions they name
Reconcile ==
  /\ step = "fanout" /\ MayReconcile
  /\ Reported # {} /\ \A u \in Reported : results[u] = "whole"
  /\ step' = "register"
  /\ paths' = {PathOf[u] : u \in Reported}
  /\ UNCHANGED <<runs, made, pod, retries, results, obs, registered, status,
                 history, faults>>

\* nothing to reconcile, an unreadable result file, or the script stopped at
\* the failed pods: no verdict
NoVerdict ==
  /\ step = "fanout" /\ PodsEnded
  /\ \/ Reported = {}
     \/ \E u \in Reported : results[u] = "torn"
     \/ WaitsForAll /\ ~AllPodsReported
  /\ step' = "done"
  /\ UNCHANGED <<runs, paths, made, pod, retries, results, obs, registered,
                 status, history, faults>>

Register(p) ==
  /\ step = "register" /\ p \in paths
  /\ registered' = registered \cup {p}
  /\ paths' = paths \ {p}
  /\ UNCHANGED <<step, runs, made, pod, retries, results, obs, status, history,
                 faults>>

\* add_partition returns False, which reconcile does not look at; where there is
\* a partition already, Register does the same
RegisterFails(p) ==
  /\ step = "register" /\ p \in paths \ registered
  /\ Fault("register")
  /\ paths' = paths \ {p}
  /\ withheld' = withheld \cup {"register"}
  /\ UNCHANGED <<step, runs, made, pod, retries, results, obs, registered,
                 status, surplus>>

StartVerify ==
  /\ step = "register" /\ paths = {}
  /\ step' = "verify"
  /\ UNCHANGED <<runs, paths, made, pod, retries, results, obs, registered,
                 status, history, faults>>

Verdict(target) ==
  status' = IF Cardinality(SourceScope) = target THEN "success" ELSE "dq_mismatch"

Verify ==
  /\ step = "verify"
  /\ Verdict(HiveCount)
  /\ step' = "done"
  /\ UNCHANGED <<runs, paths, made, pod, retries, results, obs, registered,
                 history, faults>>

\* the Hive query fails and counts as 0
VerifyBlind ==
  /\ step = "verify"
  /\ Fault("count")
  /\ Verdict(0)
  /\ step' = "done"
  /\ UNCHANGED <<runs, paths, made, pod, retries, results, obs, registered,
                 history>>

Finished == step = "done" /\ runs = MaxRuns /\ UNCHANGED vars

PodStep(u) ==
  Export(u) \/ Write(u) \/ WriteRefused(u) \/ WriteResult(u)

Work ==
  \/ \E p \in paths : ClearPath(p) \/ Register(p)
  \/ FanOut \/ (\E u \in Units : PodStep(u))
  \/ Reconcile \/ NoVerdict \/ StartVerify \/ Verify

Failure ==
  \/ \E u \in Units : \E S \in SUBSET RowsOf(u) :
       WriteDropsRows(u, S) \/ DieBeforeWritten(u, S)
  \/ \E u \in Units, torn \in BOOLEAN : DieReporting(u, torn)
  \/ \E p \in paths : \E K \in SUBSET RowsAt(p) :
       ClearPathLeavesRows(p, K) \/ PrepareDies(p, K)
  \/ \E p \in paths : RegisterFails(p)
  \/ VerifyBlind

Next == StartWorkflow \/ Finished \/ Work \/ Failure

Spec == Init /\ [][Next]_vars

\* the orchestrator keeps running its pods and steps
FairSpec == Spec /\ WF_vars(Work) /\ WF_vars(StartWorkflow)
=============================================================================
