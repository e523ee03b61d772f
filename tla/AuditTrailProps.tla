--------------------------- MODULE AuditTrailProps ---------------------------
(* What processes that share one audit trail may rely on. *)
EXTENDS AuditTrail

\* The values each variable takes.
TypeOK ==
  /\ pc \in [Procs -> PCs] /\ at \in [Procs -> Nat \ {0}]
  /\ sink \in [Procs -> Nat \ {0}]
  /\ verdict \in [Procs -> {"none", "success", "dq_mismatch"}]
  /\ failures \in [Procs -> BOOLEAN] /\ pending \in [Procs -> SUBSET Recipients]
  /\ stored \in [{"jsonl", "sql"} -> SUBSET Jobs] /\ torn \in BOOLEAN
  /\ told \in SUBSET (Procs \X Jobs \X Recipients)
  /\ missed \in SUBSET (Procs \X Jobs \X Recipients)
  /\ landed \in SUBSET Jobs /\ lost \in SUBSET Jobs
  /\ starts \in Nat /\ faults \in Nat

\* A scheduler reads the exit code only.  Zero means that every job of the
\* process has had a verified success for the date, in this process or, where
\* it was skipped, in an earlier or a concurrent one, whatever broke on the way.
ExitZeroMeansLanded ==
  \A p \in Procs : pc[p] = "ok" =>
    \A k \in 1..Len(JobList[p]) : JobList[p][k] \in landed

\* find_success asks one sink.  Any success that another sink has is known to
\* that one too, unless writing its own line failed: also when processes die
\* between two sinks, and when one process spoils the line of another.
FirstSinkKnows == stored["sql"] \ stored["jsonl"] \subseteq lost

\* A verdict other than success has been sent to every recipient, or refused by
\* the gateway, by the time record() is over; failures of the JSONL file or the
\* database before it and of earlier recipients do not stop the alert.  Only where
\* `requests` is not installed nobody is told.
MismatchIsTold ==
  [][\A p \in Procs :
       /\ WithAlerts /\ p \in Equipped /\ verdict[p] # "success"
       /\ pc[p] = "record" /\ pc'[p] = "next"
       => \A r \in Recipients : <<p, Job(p), r>> \in told \cup missed]_vars

\* No failing job, sink or gateway keeps a process from the end of its list.
ProcessesEnd ==
  \A p \in Procs : (pc[p] = "next") ~> (pc[p] \in Exits)

----------------------------------------------------------------------------
(* The inductive invariant behind the safety properties *)

\* A process at work is within its list, and it has counted a failure unless all
\* jobs it has passed have landed.
PositionsHold ==
  \A p \in Procs :
    /\ at[p] <= Len(JobList[p]) + 1
    /\ pc[p] \in {"build", "work", "record", "alert"} => at[p] <= Len(JobList[p])
    /\ ~failures[p] => \A k \in 1..(at[p] - 1) : JobList[p][k] \in landed
    /\ pc[p] = "ok" => ~failures[p] /\ at[p] = Len(JobList[p]) + 1

\* A success on its way through the sinks, or stored in one, has landed, and the
\* first sink has been tried before any other.
SuccessesHold ==
  /\ stored["jsonl"] \cup stored["sql"] \subseteq landed
  /\ \A p \in Procs :
       pc[p] = "record" /\ verdict[p] = "success" =>
         /\ Job(p) \in landed
         /\ sink[p] > 1 => Job(p) \in stored["jsonl"] \cup lost

\* The alert about a mismatch has gone to all recipients but those pending, and
\* the sink after it is reached with none pending.
AlertsHold ==
  \A p \in Procs :
    /\ pc[p] = "alert" =>
         /\ verdict[p] # "success"
         /\ \A r \in Recipients : r \in pending[p] \/ <<p, Job(p), r>> \in told \cup missed
    /\ /\ WithAlerts /\ p \in Equipped /\ verdict[p] # "success"
       /\ pc[p] = "record" /\ sink[p] > Len(Sinks)
       => \A r \in Recipients : <<p, Job(p), r>> \in told \cup missed

TrailInv == TypeOK /\ PositionsHold /\ FirstSinkKnows /\ SuccessesHold /\ AlertsHold
=============================================================================
