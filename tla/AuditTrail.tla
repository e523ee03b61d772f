------------------------------ MODULE AuditTrail ------------------------------
(***************************************************************************)
(* `td2hive run` and `run-all` as processes that work through lists of     *)
(* jobs for one processing date (cli.py), and the audit trail they share:  *)
(* CompositeAuditSink over the JSONL file, the SQL table and the alerting  *)
(* sink (audit/).  What run() does to the data is one step here; BackupRun *)
(* has its phases.                                                         *)
(***************************************************************************)
EXTENDS Naturals, Sequences

CONSTANTS
  Jobs,
  Procs,       \* processes started by cron, one `run` or `run-all` each
  JobList,     \* JobList[p]: the jobs p works through, in order
  Forced,      \* the processes started with --force
  WithSql,     \* --audit-sql-url is given
  WithAlerts,  \* a gateway URL and recipients are given
  Equipped,    \* processes whose Python has `requests`, which pyproject.toml does not ask for
  Recipients,
  MaxStarts,   \* bound on starts of all processes together
  FaultKinds,  \* what the environment of this instance may do
  MaxFaults    \* bound on how often it does

AllFaults == {"connect", "raise", "mismatch", "jsonl", "torn", "sql",
              "gateway", "crash"}

ASSUME AuditAssumption ==
  /\ JobList \in [Procs -> Seq(Jobs)]
  /\ Forced \cup Equipped \subseteq Procs /\ {WithSql, WithAlerts} \subseteq BOOLEAN
  /\ MaxStarts \in Nat /\ MaxFaults \in Nat /\ FaultKinds \subseteq AllFaults

VARIABLES
  pc,       \* pc[p]: where p is; "ok", "error" and "crashed" are its exits
  at,       \* at[p]: position of the current job in JobList[p]
  sink,     \* sink[p]: position of the sink that record() has reached
  verdict,  \* verdict[p]: the verdict of the current job
  failures, \* failures[p]: run-all has counted a failure
  pending,  \* recipients the alert in flight has yet to try
  stored,   \* successes that can be read back from each sink
  torn,     \* the last line of audit.jsonl has no end
  told,     \* <<p, job, recipient>>: alerts sent
  missed,   \* those the gateway refused
  landed,   \* history: jobs with a verified success
  lost,     \* history: jobs whose success the JSONL file failed to keep
  starts, faults

procVars  == <<pc, at, sink, verdict, failures, pending>>
trailVars == <<stored, torn, told, missed, landed, lost>>
vars      == <<procVars, trailVars, starts, faults>>

Exits == {"ok", "error", "crashed"}
PCs   == Exits \cup {"off", "next", "build", "work", "record", "alert"}

\* _build_runner: the JSONL file always comes first
SinksSqlFirst ==                                        \* mutant
  (IF WithSql THEN <<"sql">> ELSE <<>>) \o <<"jsonl">>
    \o (IF WithAlerts THEN <<"alert">> ELSE <<>>)
Sinks == <<"jsonl">> \o (IF WithSql THEN <<"sql">> ELSE <<>>)
           \o (IF WithAlerts THEN <<"alert">> ELSE <<>>)

CanLookUp(s) == s # "alert"

Job(p) == JobList[p][at[p]]

\* find_success: the answer of the first sink that can look up
FindSuccess(j) ==
  \E i \in DOMAIN Sinks :
    /\ CanLookUp(Sinks[i]) /\ \A k \in 1..(i - 1) : ~CanLookUp(Sinks[k])
    /\ j \in stored[Sinks[i]]

Fault(kind) ==
  kind \in FaultKinds /\ faults < MaxFaults /\ faults' = faults + 1

Init ==
  /\ pc = [p \in Procs |-> "off"] /\ at = [p \in Procs |-> 1]
  /\ sink = [p \in Procs |-> 1] /\ verdict = [p \in Procs |-> "none"]
  /\ failures = [p \in Procs |-> FALSE] /\ pending = [p \in Procs |-> {}]
  /\ stored = [s \in {"jsonl", "sql"} |-> {}] /\ torn = FALSE
  /\ told = {} /\ missed = {} /\ landed = {} /\ lost = {}
  /\ starts = 0 /\ faults = 0

Start(p) ==
  /\ pc[p] \in Exits \cup {"off"} /\ starts < MaxStarts
  /\ pc' = [pc EXCEPT ![p] = "next"] /\ at' = [at EXCEPT ![p] = 1]
  /\ failures' = [failures EXCEPT ![p] = FALSE]
  /\ starts' = starts + 1
  /\ told' = {t \in told : t[1] # p} /\ missed' = {t \in missed : t[1] # p}
  /\ UNCHANGED <<sink, verdict, pending, stored, torn, landed, lost, faults>>

NextJob(p) ==
  /\ pc[p] = "next" /\ at[p] <= Len(JobList[p])
  /\ pc' = [pc EXCEPT ![p] = "build"]
  /\ UNCHANGED <<at, sink, verdict, failures, pending, trailVars, starts, faults>>

Exit(p) ==
  /\ pc[p] = "next" /\ at[p] > Len(JobList[p])
  /\ pc' = [pc EXCEPT ![p] = IF ~failures[p] THEN "ok" ELSE "error"]
  /\ UNCHANGED <<at, sink, verdict, failures, pending, trailVars, starts, faults>>

\* the loop goes on to the next job, whatever became of this one
Advance(p, failed) ==
  /\ pc' = [pc EXCEPT ![p] = "next"]
  /\ at' = [at EXCEPT ![p] = @ + 1]
  /\ failures' = [failures EXCEPT ![p] = @ \/ failed]

\* an exception leaves _run_job; run-all counts it, `run` dies of it
RaisedUncounted(p) == Advance(p, FALSE)                 \* mutant
Raised(p) == Advance(p, TRUE)

SkipStays(p) ==                                         \* mutant
  /\ pc[p] = "build" /\ p \notin Forced /\ FindSuccess(Job(p))
  /\ UNCHANGED vars
Skip(p) ==
  /\ pc[p] = "build" /\ p \notin Forced /\ FindSuccess(Job(p))
  /\ Advance(p, FALSE)
  /\ UNCHANGED <<sink, verdict, pending, trailVars, starts, faults>>

BeginWork(p) ==
  /\ pc[p] = "build" /\ (p \in Forced \/ ~FindSuccess(Job(p)))
  /\ pc' = [pc EXCEPT ![p] = "work"]
  /\ UNCHANGED <<at, sink, verdict, failures, pending, trailVars, starts, faults>>

\* Teradata, or the database SQLAuditSink connects to when it is constructed
BuildFails(p) ==
  /\ pc[p] = "build" /\ Fault("connect") /\ Raised(p)
  /\ UNCHANGED <<sink, verdict, pending, trailVars, starts>>

Reconciled(p, status) ==
  /\ pc[p] = "work"
  /\ pc' = [pc EXCEPT ![p] = "record"] /\ sink' = [sink EXCEPT ![p] = 1]
  /\ verdict' = [verdict EXCEPT ![p] = status]
  /\ UNCHANGED <<at, failures, pending, stored, torn, told, missed, lost, starts>>

WorkSucceeds(p) ==
  Reconciled(p, "success") /\ landed' = landed \cup {Job(p)} /\ UNCHANGED faults

WorkMismatches(p) ==
  Reconciled(p, "dq_mismatch") /\ Fault("mismatch") /\ UNCHANGED landed

\* plan, prepare, export or write raised: no audit record at all
WorkRaises(p) ==
  /\ pc[p] = "work" /\ Fault("raise") /\ Raised(p)
  /\ UNCHANGED <<sink, verdict, pending, trailVars, starts>>

----------------------------------------------------------------------------
(* CompositeAuditSink.record: the sinks one after the other *)

At(p, s) == pc[p] = "record" /\ sink[p] <= Len(Sinks) /\ Sinks[sink[p]] = s

\* a sink that raises is logged and passed over
NextSink(p) == sink' = [sink EXCEPT ![p] = @ + 1] /\ UNCHANGED pc
AbandonRecord(p) ==                                     \* mutant
  sink' = [sink EXCEPT ![p] = Len(Sinks) + 1] /\ UNCHANGED pc
PassOver(p) == NextSink(p)

SuccessStatus(p) == {verdict[p]}                        \* mutant
Success(p) == IF verdict[p] = "success" THEN {Job(p)} ELSE {}

\* a line appended behind an unfinished one is unreadable like it
AppendJsonl(p) ==
  /\ At(p, "jsonl")
  /\ stored' = IF torn THEN stored
               ELSE [stored EXCEPT !["jsonl"] = @ \cup Success(p)]
  /\ lost' = IF torn THEN lost \cup Success(p) ELSE lost
  /\ torn' = FALSE
  /\ NextSink(p)
  /\ UNCHANGED <<at, verdict, failures, pending, told, missed, landed, starts, faults>>

\* nothing is written, or half a line
JsonlFails(p) ==
  /\ At(p, "jsonl")
  /\ \/ Fault("jsonl") /\ UNCHANGED torn
     \/ Fault("torn") /\ torn' = TRUE
  /\ lost' = lost \cup Success(p)
  /\ PassOver(p)
  /\ UNCHANGED <<at, verdict, failures, pending, stored, told, missed, landed, starts>>

InsertSql(p) ==
  /\ At(p, "sql")
  /\ stored' = [stored EXCEPT !["sql"] = @ \cup Success(p)]
  /\ NextSink(p)
  /\ UNCHANGED <<at, verdict, failures, pending, torn, told, missed, landed,
                 lost, starts, faults>>

SqlFails(p) ==
  /\ At(p, "sql") /\ Fault("sql") /\ PassOver(p)
  /\ UNCHANGED <<at, verdict, failures, pending, trailVars, starts>>

\* AlertingAuditSink.record: silent on success, else every recipient in turn
BeginAlert(p) ==
  /\ At(p, "alert")
  /\ IF verdict[p] = "success"
       THEN NextSink(p) /\ UNCHANGED pending
       ELSE /\ pc' = [pc EXCEPT ![p] = "alert"] /\ UNCHANGED sink
            /\ pending' = [pending EXCEPT ![p] = Recipients]
  /\ UNCHANGED <<at, verdict, failures, trailVars, starts, faults>>

\* _send: one attempt (max_retries 1); its failure is a returned False
SendAlert(p, r) ==
  /\ pc[p] = "alert" /\ r \in pending[p] /\ p \in Equipped
  /\ pending' = [pending EXCEPT ![p] = @ \ {r}]
  /\ \/ told' = told \cup {<<p, Job(p), r>>} /\ UNCHANGED <<missed, faults>>
     \/ missed' = missed \cup {<<p, Job(p), r>>} /\ Fault("gateway") /\ UNCHANGED told
  /\ UNCHANGED <<pc, at, sink, verdict, failures, stored, torn, landed, lost, starts>>

\* all have been tried; or _send, which imports `requests` outside its try, raised
\* at the first of them, and record() passes the sink over
EndAlert(p) ==
  /\ pc[p] = "alert" /\ (pending[p] = {} \/ p \notin Equipped)
  /\ pc' = [pc EXCEPT ![p] = "record"] /\ sink' = [sink EXCEPT ![p] = @ + 1]
  /\ pending' = [pending EXCEPT ![p] = {}]
  /\ UNCHANGED <<at, verdict, failures, trailVars, starts, faults>>

EndRecord(p) ==
  /\ pc[p] = "record" /\ sink[p] > Len(Sinks)
  /\ Advance(p, verdict[p] # "success")
  /\ UNCHANGED <<sink, verdict, pending, trailVars, starts, faults>>

\* the process dies, in the middle of a line if it was writing one
Crash(p) ==
  /\ pc[p] \notin Exits \cup {"off"} /\ Fault("crash")
  /\ pc' = [pc EXCEPT ![p] = "crashed"]
  /\ torn' \in {torn} \cup (IF At(p, "jsonl") THEN {TRUE} ELSE {})
  /\ lost' = IF At(p, "jsonl") THEN lost \cup Success(p) ELSE lost
  /\ UNCHANGED <<at, sink, verdict, failures, pending, stored, told, missed,
                 landed, starts>>

Step(p) ==
  \/ NextJob(p) \/ Exit(p) \/ Skip(p) \/ BeginWork(p) \/ BuildFails(p)
  \/ WorkSucceeds(p) \/ WorkMismatches(p) \/ WorkRaises(p)
  \/ AppendJsonl(p) \/ JsonlFails(p) \/ InsertSql(p) \/ SqlFails(p)
  \/ BeginAlert(p) \/ (\E r \in Recipients : SendAlert(p, r)) \/ EndAlert(p)
  \/ EndRecord(p)

Next == \E p \in Procs : Start(p) \/ Step(p) \/ Crash(p)

Spec     == Init /\ [][Next]_vars
FairSpec == Spec /\ \A p \in Procs : WF_vars(Step(p))
=============================================================================
