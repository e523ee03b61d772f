--------------------------- MODULE AuditTrailProofs ---------------------------
(***************************************************************************)
(* Proofs about AuditTrail for any jobs, lists, processes and recipients,  *)
(* any number of starts and of failures of any kind.                       *)
(***************************************************************************)
EXTENDS AuditTrailProps, SequenceTheorems, TLAPS

----------------------------------------------------------------------------
(* The sinks *)

\* A sequence of one sink, and of none.
LEMMA OneSink ==
  ASSUME NEW S, NEW x \in S
  PROVE  <<x>> \in Seq(S) /\ Len(<<x>>) = 1 /\ <<x>>[1] = x
  OBVIOUS

LEMMA NoSink == ASSUME NEW S PROVE <<>> \in Seq(S)
  OBVIOUS

\* The JSONL file comes first and the alert, if there is one, last.
LEMMA SinksOrder ==
  /\ Len(Sinks) \in Nat \ {0}
  /\ Sinks[1] = "jsonl"
  /\ WithAlerts => Sinks[Len(Sinks)] = "alert"
  <1> DEFINE sql   == IF WithSql THEN <<"sql">> ELSE <<>>
             alert == IF WithAlerts THEN <<"alert">> ELSE <<>>
             front == <<"jsonl">> \o sql
  <1> DEFINE Names == {"jsonl", "sql", "alert"}
  <1>1. /\ <<"jsonl">> \in Seq(Names) /\ Len(<<"jsonl">>) = 1
        /\ <<"jsonl">>[1] = "jsonl"
    BY OneSink
  <1>2. sql \in Seq(Names) /\ Len(sql) \in Nat
    <2>1. <<"sql">> \in Seq(Names) /\ <<>> \in Seq(Names)
      BY OneSink, NoSink
    <2>2. sql \in Seq(Names)
      BY <2>1, Zenon
    <2> QED
      BY <2>2, LenProperties
  <1>3. /\ alert \in Seq(Names) /\ Len(alert) \in Nat
        /\ WithAlerts => Len(alert) = 1 /\ alert[1] = "alert"
    <2>1. /\ <<"alert">> \in Seq(Names) /\ <<>> \in Seq(Names)
          /\ Len(<<"alert">>) = 1 /\ <<"alert">>[1] = "alert"
      BY OneSink, NoSink
    <2>2. alert \in Seq(Names) /\ (WithAlerts => alert = <<"alert">>)
      BY <2>1, Zenon
    <2> QED
      BY <2>1, <2>2, LenProperties
  <1> HIDE DEF alert, sql, Names
  <1>4. /\ front \in Seq(Names) /\ Len(front) = 1 + Len(sql) /\ front[1] = "jsonl"
    <2>1. \A i \in 1..1 + Len(sql) :
            front[i] = IF i <= 1 THEN <<"jsonl">>[i] ELSE sql[i - 1]
      BY <1>1, <1>2, ConcatProperties
    <2> QED
      BY <1>1, <1>2, <2>1, ConcatProperties
  <1> HIDE DEF front
  <1>5. /\ Len(front \o alert) = Len(front) + Len(alert)
        /\ \A i \in 1..Len(front) + Len(alert) :
             (front \o alert)[i] = IF i <= Len(front) THEN front[i] ELSE alert[i - Len(front)]
    BY <1>3, <1>4, ConcatProperties
  <1>6. Sinks = front \o alert
    BY DEF Sinks, front, sql, alert
  <1> QED
    BY <1>2, <1>3, <1>4, <1>5, <1>6

\* So the database and the alert are never reached first, and the alert is the
\* only one that can be last.
LEMMA SinkPositions ==
  ASSUME NEW p \in Procs, TypeOK
  PROVE  /\ At(p, "sql") \/ At(p, "alert") => sink[p] > 1
         /\ WithAlerts /\ (At(p, "sql") \/ At(p, "jsonl")) => sink[p] < Len(Sinks)
  BY SinksOrder DEF At, TypeOK

\* A success that find_success reports has landed.
LEMMA FoundHasLanded ==
  ASSUME NEW j, FindSuccess(j), SuccessesHold, TypeOK
  PROVE  j \in landed
  <1>1. PICK i \in DOMAIN Sinks :
          (\A k \in 1..(i - 1) : ~CanLookUp(Sinks[k])) /\ j \in stored[Sinks[i]]
    BY DEF FindSuccess
  <1>2. DOMAIN Sinks = 1..Len(Sinks)
    BY DEF Sinks
  <1>3. i = 1
    BY <1>1, <1>2, SinksOrder DEF CanLookUp
  <1> QED
    BY <1>1, <1>3, SinksOrder DEF SuccessesHold

\* The job of a process at work is one of the jobs.
LEMMA JobType ==
  ASSUME NEW p \in Procs, TypeOK, at[p] <= Len(JobList[p])
  PROVE  Job(p) \in Jobs /\ Len(JobList[p]) \in Nat
  BY AuditAssumption DEF Job, TypeOK

----------------------------------------------------------------------------
(* Type correctness *)

\* The initial state satisfies the whole invariant.
LEMMA InitTrailInv == Init => TrailInv
  <1> SUFFICES ASSUME Init PROVE TrailInv
    OBVIOUS
  <1> USE DEF Init
  <1>1. TypeOK
    <2>1. failures \in [Procs -> BOOLEAN] /\ torn \in BOOLEAN
      BY Zenon
    <2> QED
      BY <2>1 DEF TypeOK, PCs, Exits
  <1>2. PositionsHold
    <2>1. \A p \in Procs : JobList[p] \in Seq(Jobs) /\ Len(JobList[p]) \in Nat
      BY AuditAssumption, LenProperties
    <2>2. \A p \in Procs : at[p] = 1 /\ pc[p] = "off"
      OBVIOUS
    <2> QED
      BY <2>1, <2>2 DEF PositionsHold
  <1>3. FirstSinkKnows /\ SuccessesHold /\ AlertsHold
    BY DEF FirstSinkKnows, SuccessesHold, AlertsHold
  <1> QED
    BY <1>1, <1>2, <1>3 DEF TrailInv

\* Going on to the next job keeps the types of what it changes.
LEMMA AdvanceType ==
  ASSUME NEW p \in Procs, NEW failed \in BOOLEAN, Advance(p, failed), TypeOK
  PROVE  /\ pc' \in [Procs -> PCs] /\ at' \in [Procs -> Nat \ {0}]
         /\ failures' \in [Procs -> BOOLEAN]
  <1>1. pc' \in [Procs -> PCs] /\ at' \in [Procs -> Nat \ {0}]
    BY DEF Advance, TypeOK, PCs, Exits
  <1>2. failures' \in [Procs -> BOOLEAN]
    BY Zenon DEF Advance, TypeOK
  <1> QED
    BY <1>1, <1>2

\* A record step that stores or loses a success keeps those two typed.
LEMMA StoreType ==
  ASSUME NEW p \in Procs, NEW s \in {"jsonl", "sql"}, TypeOK, PositionsHold, At(p, s)
  PROVE  /\ Success(p) \in SUBSET Jobs
         /\ [stored EXCEPT ![s] = @ \cup Success(p)] \in [{"jsonl", "sql"} -> SUBSET Jobs]
         /\ lost \cup Success(p) \in SUBSET Jobs
  <1>1. Success(p) \in SUBSET Jobs
    BY JobType DEF At, Success, PositionsHold
  <1> QED
    BY <1>1 DEF TypeOK

\* Every step keeps the types.
LEMMA NextTypeOK == TypeOK /\ PositionsHold /\ [Next]_vars => TypeOK'
  <1> SUFFICES ASSUME TypeOK, PositionsHold, [Next]_vars PROVE TypeOK'
    OBVIOUS
  <1> USE DEF TypeOK, PCs, Exits
  <1>1. CASE UNCHANGED vars
    BY <1>1 DEF vars, procVars, trailVars
  <1>2. ASSUME NEW p \in Procs, Start(p) PROVE TypeOK'
    BY <1>2 DEF Start
  <1>3. ASSUME NEW p \in Procs, NextJob(p) \/ Exit(p) \/ BeginWork(p) PROVE TypeOK'
    BY <1>3 DEF NextJob, Exit, BeginWork, trailVars
  <1>4. ASSUME NEW p \in Procs, Skip(p) \/ EndRecord(p) PROVE TypeOK'
    <2>1. PICK failed \in BOOLEAN : Advance(p, failed)
      BY <1>4 DEF Skip, EndRecord
    <2> QED
      BY <1>4, <2>1, AdvanceType DEF Skip, EndRecord, trailVars
  <1>5. ASSUME NEW p \in Procs, BuildFails(p) \/ WorkRaises(p) PROVE TypeOK'
    <2>1. Advance(p, TRUE)
      BY <1>5 DEF BuildFails, WorkRaises, Raised
    <2>2. /\ pc' \in [Procs -> PCs] /\ at' \in [Procs -> Nat \ {0}]
          /\ failures' \in [Procs -> BOOLEAN]
      <3>1. TRUE \in BOOLEAN /\ TypeOK
        OBVIOUS
      <3> HIDE DEF TypeOK, PCs
      <3> QED
        BY <2>1, <3>1, AdvanceType, Zenon
    <2>3. faults' \in Nat
      BY <1>5 DEF BuildFails, WorkRaises, Fault
    <2> QED
      BY <1>5, <2>2, <2>3 DEF BuildFails, WorkRaises, trailVars
  <1>6. ASSUME NEW p \in Procs, WorkSucceeds(p) PROVE TypeOK'
    <2>1. Job(p) \in Jobs
      BY <1>6, JobType DEF WorkSucceeds, Reconciled, PositionsHold
    <2> QED
      BY <1>6, <2>1 DEF WorkSucceeds, Reconciled
  <1>7. ASSUME NEW p \in Procs, WorkMismatches(p) PROVE TypeOK'
    BY <1>7 DEF WorkMismatches, Reconciled, Fault
  <1>8. ASSUME NEW p \in Procs, AppendJsonl(p) \/ JsonlFails(p) \/ InsertSql(p)
        PROVE  TypeOK'
    <2>1. CASE AppendJsonl(p)
      <3>1. /\ stored' \in [{"jsonl", "sql"} -> SUBSET Jobs]
            /\ lost' \in SUBSET Jobs /\ torn' \in BOOLEAN
        BY <2>1, StoreType DEF AppendJsonl
      <3> QED
        BY <2>1, <3>1 DEF AppendJsonl, NextSink
    <2>2. CASE JsonlFails(p)
      <3>1. lost' \in SUBSET Jobs
        BY <2>2, StoreType DEF JsonlFails
      <3>2. torn' \in BOOLEAN
        BY <2>2, Zenon DEF JsonlFails
      <3>3. faults' \in Nat
        BY <2>2 DEF JsonlFails, Fault
      <3> QED
        BY <2>2, <3>1, <3>2, <3>3 DEF JsonlFails, PassOver, NextSink
    <2>3. CASE InsertSql(p)
      <3>1. stored' \in [{"jsonl", "sql"} -> SUBSET Jobs]
        BY <2>3, StoreType DEF InsertSql
      <3> QED
        BY <2>3, <3>1 DEF InsertSql, NextSink
    <2> QED
      BY <1>8, <2>1, <2>2, <2>3
  <1>9. ASSUME NEW p \in Procs, SqlFails(p) PROVE TypeOK'
    BY <1>9 DEF SqlFails, PassOver, NextSink, Fault, trailVars
  <1>10. ASSUME NEW p \in Procs, BeginAlert(p) PROVE TypeOK'
    BY <1>10 DEF BeginAlert, NextSink, trailVars
  <1>11. ASSUME NEW p \in Procs, NEW r \in Recipients, SendAlert(p, r) PROVE TypeOK'
    <2>1. <<p, Job(p), r>> \in Procs \X Jobs \X Recipients
      BY <1>11, JobType DEF SendAlert, PositionsHold
    <2> QED
      BY <1>11, <2>1 DEF SendAlert, Fault
  <1>12. ASSUME NEW p \in Procs, EndAlert(p) PROVE TypeOK'
    BY <1>12 DEF EndAlert, trailVars
  <1>13. ASSUME NEW p \in Procs, Crash(p) PROVE TypeOK'
    <2>1. lost' \in SUBSET Jobs
      BY <1>13, StoreType DEF Crash
    <2>2. torn' \in BOOLEAN
      BY <1>13, Zenon DEF Crash
    <2>3. faults' \in Nat
      BY <1>13 DEF Crash, Fault
    <2> QED
      BY <1>13, <2>1, <2>2, <2>3 DEF Crash
  <1> QED
    BY <1>1, <1>2, <1>3, <1>4, <1>5, <1>6, <1>7, <1>8, <1>9, <1>10, <1>11, <1>12, <1>13
    DEF Next, Step

----------------------------------------------------------------------------
(* What a step of one process leaves to the others *)

ProcStep(p) == Start(p) \/ Step(p) \/ Crash(p)

\* The program counter, position and count of another process stay, and so do its
\* sink, its verdict and its pending recipients.
LEMMA OthersStay ==
  ASSUME NEW p \in Procs, NEW q \in Procs, q # p, ProcStep(p), TypeOK
  PROVE  /\ pc'[q] = pc[q] /\ at'[q] = at[q] /\ failures'[q] = failures[q]
         /\ sink'[q] = sink[q] /\ verdict'[q] = verdict[q] /\ pending'[q] = pending[q]
  <1> USE DEF TypeOK
  <1>1. CASE Start(p)
    BY <1>1 DEF Start
  <1>2. CASE Crash(p)
    BY <1>2 DEF Crash
  <1>3. CASE NextJob(p) \/ Exit(p) \/ BeginWork(p) \/ EndAlert(p)
    BY <1>3 DEF NextJob, Exit, BeginWork, EndAlert
  <1>4. CASE Skip(p) \/ EndRecord(p)
    BY <1>4 DEF Skip, EndRecord, Advance
  <1>5. CASE BuildFails(p) \/ WorkRaises(p)
    BY <1>5 DEF BuildFails, WorkRaises, Raised, Advance
  <1>6. CASE WorkSucceeds(p) \/ WorkMismatches(p)
    BY <1>6 DEF WorkSucceeds, WorkMismatches, Reconciled
  <1>7. CASE AppendJsonl(p) \/ JsonlFails(p) \/ InsertSql(p) \/ SqlFails(p)
    BY <1>7 DEF AppendJsonl, JsonlFails, InsertSql, SqlFails, PassOver, NextSink
  <1>8. CASE BeginAlert(p)
    BY <1>8 DEF BeginAlert, NextSink
  <1>9. ASSUME NEW r \in Recipients, SendAlert(p, r)
        PROVE  /\ pc'[q] = pc[q] /\ at'[q] = at[q] /\ failures'[q] = failures[q]
               /\ sink'[q] = sink[q] /\ verdict'[q] = verdict[q] /\ pending'[q] = pending[q]
    BY <1>9 DEF SendAlert
  <1> QED
    BY <1>1, <1>2, <1>3, <1>4, <1>5, <1>6, <1>7, <1>8, <1>9 DEF ProcStep, Step

\* What has landed, is stored or is lost remains so, and another process' alerts
\* stay sent or refused.
LEMMA TrailGrows ==
  ASSUME NEW p \in Procs, ProcStep(p), TypeOK
  PROVE  /\ landed \subseteq landed' /\ lost \subseteq lost'
         /\ \A s \in {"jsonl", "sql"} : stored[s] \subseteq stored'[s]
         /\ \A q \in Procs : \A j, r :
              q # p /\ <<q, j, r>> \in told \cup missed => <<q, j, r>> \in told' \cup missed'
  <1> USE DEF TypeOK
  <1> DEFINE Grows ==
        /\ landed \subseteq landed' /\ lost \subseteq lost'
        /\ \A s \in {"jsonl", "sql"} : stored[s] \subseteq stored'[s]
        /\ \A q \in Procs : \A j, r :
             q # p /\ <<q, j, r>> \in told \cup missed => <<q, j, r>> \in told' \cup missed'
  <1>1. CASE Start(p)
    BY <1>1 DEF Start
  <1>2. CASE Crash(p)
    BY <1>2 DEF Crash
  <1>3. CASE NextJob(p) \/ Exit(p) \/ BeginWork(p) \/ EndAlert(p)
    BY <1>3 DEF NextJob, Exit, BeginWork, EndAlert, trailVars
  <1>4. CASE Skip(p) \/ EndRecord(p)
    BY <1>4 DEF Skip, EndRecord, trailVars
  <1>5. CASE BuildFails(p) \/ WorkRaises(p)
    BY <1>5 DEF BuildFails, WorkRaises, trailVars
  <1>6. CASE WorkSucceeds(p) \/ WorkMismatches(p)
    BY <1>6 DEF WorkSucceeds, WorkMismatches, Reconciled
  <1>7. CASE AppendJsonl(p) \/ JsonlFails(p) \/ InsertSql(p) \/ SqlFails(p)
    BY <1>7 DEF AppendJsonl, JsonlFails, InsertSql, SqlFails, trailVars
  <1>8. CASE BeginAlert(p)
    BY <1>8 DEF BeginAlert, trailVars
  <1>9. ASSUME NEW r \in Recipients, SendAlert(p, r) PROVE Grows
    BY <1>9 DEF SendAlert
  <1> QED
    BY <1>1, <1>2, <1>3, <1>4, <1>5, <1>6, <1>7, <1>8, <1>9 DEF ProcStep, Step

----------------------------------------------------------------------------
(* The exit code *)

\* Going on from a job that has landed, or counting it as failed, keeps the
\* process' own part of PositionsHold.
LEMMA AdvancePositions ==
  ASSUME NEW p \in Procs, NEW failed \in BOOLEAN, Advance(p, failed), TypeOK,
         at[p] <= Len(JobList[p]),
         ~failures[p] => \A k \in 1..(at[p] - 1) : JobList[p][k] \in landed,
         failed \/ Job(p) \in landed, landed \subseteq landed'
  PROVE  /\ pc'[p] = "next" /\ at'[p] <= Len(JobList[p]) + 1
         /\ ~failures'[p] => \A k \in 1..(at'[p] - 1) : JobList[p][k] \in landed'
  <1>1. pc'[p] = "next" /\ at'[p] = at[p] + 1 /\ at[p] \in Nat \ {0}
    BY DEF Advance, TypeOK
  <1>2. failures'[p] = (failures[p] \/ failed)
    BY Zenon DEF Advance, TypeOK
  <1>3. Len(JobList[p]) \in Nat
    BY JobType
  <1>4. ASSUME ~failures'[p], NEW k \in 1..(at'[p] - 1) PROVE JobList[p][k] \in landed'
    <2>1. ~failures[p] /\ Job(p) \in landed
      BY <1>2, <1>4
    <2>2. CASE k = at[p]
      BY <2>1, <2>2 DEF Job
    <2>3. CASE k # at[p]
      BY <1>1, <1>4, <2>1, <2>3
    <2> QED
      BY <2>2, <2>3
  <1> QED
    BY <1>1, <1>3, <1>4

\* Every step keeps what positions, counts and exits say about landed jobs.
LEMMA NextPositionsHold ==
  TypeOK /\ PositionsHold /\ SuccessesHold /\ [Next]_vars => PositionsHold'
  <1> SUFFICES ASSUME TypeOK, PositionsHold, SuccessesHold, [Next]_vars
               PROVE  PositionsHold'
    OBVIOUS
  <1>1. CASE UNCHANGED vars
    BY <1>1 DEF vars, procVars, trailVars, PositionsHold
  <1>2. ASSUME NEW p \in Procs, ProcStep(p) PROVE PositionsHold'
    <2> DEFINE Own ==
          /\ at'[p] <= Len(JobList[p]) + 1
          /\ pc'[p] \in {"build", "work", "record", "alert"} => at'[p] <= Len(JobList[p])
          /\ ~failures'[p] => \A k \in 1..(at'[p] - 1) : JobList[p][k] \in landed'
          /\ pc'[p] = "ok" => ~failures'[p] /\ at'[p] = Len(JobList[p]) + 1
    <2>1. landed \subseteq landed'
      BY <1>2, TrailGrows
    <2> SUFFICES Own
      <3>1. ASSUME NEW q \in Procs, q # p
            PROVE  pc'[q] = pc[q] /\ at'[q] = at[q] /\ failures'[q] = failures[q]
        BY <1>2, <3>1, OthersStay
      <3> QED
        BY <2>1, <3>1 DEF PositionsHold
    <2> HIDE DEF Own
    <2>2. Len(JobList[p]) \in Nat /\ at[p] \in Nat \ {0}
      BY AuditAssumption DEF TypeOK
    <2>3. ASSUME at'[p] = at[p], failures'[p] = failures[p],
                 pc'[p] \in {"build", "work", "record", "alert"} => at[p] <= Len(JobList[p]),
                 pc'[p] = "ok" => ~failures[p] /\ at[p] = Len(JobList[p]) + 1
          PROVE  Own
      BY <2>1, <2>2, <2>3 DEF PositionsHold, Own
    <2>4. ASSUME NEW failed \in BOOLEAN, Advance(p, failed), at[p] <= Len(JobList[p]),
                 failed \/ Job(p) \in landed
          PROVE  Own
      BY <2>1, <2>4, AdvancePositions DEF PositionsHold, Own
    <2>5. CASE Start(p)
      <3>1. pc'[p] = "next" /\ at'[p] = 1
        BY <2>5 DEF Start, TypeOK
      <3> QED
        BY <2>2, <3>1 DEF Own
    <2>6. CASE Crash(p)
      <3>1. at' = at /\ failures' = failures /\ pc'[p] = "crashed"
        BY <2>6 DEF Crash, TypeOK
      <3> QED
        BY <2>3, <3>1
    <2>7. CASE NextJob(p) \/ BeginWork(p) \/ EndAlert(p)
      <3>1. /\ at' = at /\ failures' = failures /\ pc'[p] \in {"build", "work", "record"}
            /\ at[p] <= Len(JobList[p])
        BY <2>7 DEF NextJob, BeginWork, EndAlert, TypeOK, PositionsHold
      <3> QED
        BY <2>3, <3>1
    <2>8. CASE Exit(p)
      <3>1. at' = at /\ failures' = failures /\ at[p] = Len(JobList[p]) + 1
        BY <2>2, <2>8 DEF Exit, PositionsHold
      <3>2. pc'[p] = IF ~failures[p] THEN "ok" ELSE "error"
        BY <2>8 DEF Exit, TypeOK
      <3> QED
        BY <2>3, <3>1, <3>2
    <2>9. CASE Skip(p)
      <3>1. Advance(p, FALSE) /\ at[p] <= Len(JobList[p]) /\ Job(p) \in landed
        BY <2>9, FoundHasLanded DEF Skip, PositionsHold
      <3> QED
        BY <2>4, <3>1
    <2>10. CASE EndRecord(p)
      <3>1. /\ Advance(p, verdict[p] # "success") /\ at[p] <= Len(JobList[p])
            /\ verdict[p] = "success" => Job(p) \in landed
        BY <2>10 DEF EndRecord, PositionsHold, SuccessesHold
      <3> QED
        BY <2>4, <3>1
    <2>11. CASE BuildFails(p) \/ WorkRaises(p)
      <3>1. Advance(p, TRUE) /\ at[p] <= Len(JobList[p])
        BY <2>11 DEF BuildFails, WorkRaises, Raised, PositionsHold
      <3> QED
        BY <2>4, <3>1
    <2>12. CASE WorkSucceeds(p) \/ WorkMismatches(p)
      <3>1. /\ at' = at /\ failures' = failures /\ pc'[p] = "record"
            /\ at[p] <= Len(JobList[p])
        BY <2>12 DEF WorkSucceeds, WorkMismatches, Reconciled, TypeOK, PositionsHold
      <3> QED
        BY <2>3, <3>1
    <2>13. CASE AppendJsonl(p) \/ JsonlFails(p) \/ InsertSql(p) \/ SqlFails(p)
      <3>1. /\ at' = at /\ failures' = failures /\ pc' = pc
            /\ pc[p] = "record" /\ at[p] <= Len(JobList[p])
        BY <2>13 DEF AppendJsonl, JsonlFails, InsertSql, SqlFails, PassOver, NextSink,
                     At, PositionsHold
      <3> QED
        BY <2>3, <3>1
    <2>14. CASE BeginAlert(p)
      <3>1. /\ at' = at /\ failures' = failures /\ pc'[p] \in {"record", "alert"}
            /\ at[p] <= Len(JobList[p])
        BY <2>14 DEF BeginAlert, NextSink, At, TypeOK, PositionsHold
      <3> QED
        BY <2>3, <3>1
    <2>15. ASSUME NEW r \in Recipients, SendAlert(p, r) PROVE Own
      <3>1. /\ at' = at /\ failures' = failures /\ pc' = pc /\ pc[p] = "alert"
            /\ at[p] <= Len(JobList[p])
        BY <2>15 DEF SendAlert, PositionsHold
      <3> QED
        BY <2>3, <3>1
    <2> QED
      BY <1>2, <2>5, <2>6, <2>7, <2>8, <2>9, <2>10, <2>11, <2>12, <2>13, <2>14, <2>15
      DEF ProcStep, Step
  <1> QED
    BY <1>1, <1>2 DEF Next, ProcStep

----------------------------------------------------------------------------
(* Successes and sinks *)

\* Every step keeps what the sinks and the lost lines say about landed jobs.
LEMMA NextSuccessesHold ==
  TypeOK /\ SuccessesHold /\ FirstSinkKnows /\ AlertsHold /\ [Next]_vars
    => SuccessesHold' /\ FirstSinkKnows'
  <1> SUFFICES ASSUME TypeOK, SuccessesHold, FirstSinkKnows, AlertsHold, [Next]_vars
               PROVE  SuccessesHold' /\ FirstSinkKnows'
    OBVIOUS
  <1>1. CASE UNCHANGED vars
    BY <1>1 DEF vars, procVars, trailVars, SuccessesHold, FirstSinkKnows, Job
  <1>2. ASSUME NEW p \in Procs, ProcStep(p) PROVE SuccessesHold' /\ FirstSinkKnows'
    <2> DEFINE Stored ==
          /\ stored'["jsonl"] \cup stored'["sql"] \subseteq landed'
          /\ stored'["sql"] \ stored'["jsonl"] \subseteq lost'
        Own ==
          pc'[p] = "record" /\ verdict'[p] = "success" =>
            /\ Job(p)' \in landed'
            /\ sink'[p] > 1 => Job(p)' \in stored'["jsonl"] \cup lost'
    <2>1. /\ landed \subseteq landed' /\ lost \subseteq lost'
          /\ \A s \in {"jsonl", "sql"} : stored[s] \subseteq stored'[s]
      BY <1>2, TrailGrows
    <2> SUFFICES Stored /\ Own
      <3>1. ASSUME NEW q \in Procs, q # p
            PROVE  /\ pc'[q] = pc[q] /\ sink'[q] = sink[q] /\ verdict'[q] = verdict[q]
                   /\ at'[q] = at[q]
        BY <1>2, <3>1, OthersStay
      <3>2. ASSUME Stored, Own PROVE FirstSinkKnows'
        BY <3>2 DEF FirstSinkKnows
      <3>3. ASSUME Stored, Own, NEW q \in Procs, pc'[q] = "record", verdict'[q] = "success"
            PROVE  /\ JobList[q][at'[q]] \in landed'
                   /\ sink'[q] > 1 => JobList[q][at'[q]] \in stored'["jsonl"] \cup lost'
        <4>1. CASE q = p
          BY <3>3, <4>1 DEF Job
        <4>2. CASE q # p
          BY <2>1, <3>1, <3>3, <4>2 DEF SuccessesHold, Job
        <4> QED
          BY <4>1, <4>2
      <3> QED
        BY <3>2, <3>3 DEF SuccessesHold, Job
    <2>2. CASE AppendJsonl(p)
      <3>1. /\ stored' = IF torn THEN stored
                        ELSE [stored EXCEPT !["jsonl"] = @ \cup Success(p)]
            /\ lost' = IF torn THEN lost \cup Success(p) ELSE lost
        BY <2>2 DEF AppendJsonl
      <3>2. /\ Success(p) \subseteq stored'["jsonl"] \cup lost'
            /\ stored'["jsonl"] \subseteq stored["jsonl"] \cup Success(p)
            /\ stored'["sql"] = stored["sql"]
        BY <3>1 DEF TypeOK
      <3>3. /\ pc[p] = "record" /\ verdict' = verdict /\ landed' = landed /\ Job(p)' = Job(p)
        BY <2>2 DEF AppendJsonl, At, Job
      <3>4. Success(p) \subseteq landed
        BY <3>3 DEF Success, SuccessesHold
      <3> QED
        BY <2>1, <3>2, <3>3, <3>4 DEF SuccessesHold, FirstSinkKnows, Success
    <2>3. CASE JsonlFails(p)
      <3>1. /\ lost' = lost \cup Success(p) /\ stored' = stored /\ pc[p] = "record"
            /\ verdict' = verdict /\ landed' = landed /\ Job(p)' = Job(p)
        BY <2>3 DEF JsonlFails, At, Job
      <3> QED
        BY <3>1 DEF SuccessesHold, FirstSinkKnows, Success
    <2>4. CASE InsertSql(p)
      <3>1. /\ pc[p] = "record" /\ verdict' = verdict /\ landed' = landed /\ lost' = lost
            /\ Job(p)' = Job(p) /\ stored' = [stored EXCEPT !["sql"] = @ \cup Success(p)]
        BY <2>4 DEF InsertSql, At, Job
      <3>2. sink[p] > 1
        BY <2>4, SinkPositions DEF InsertSql
      <3>3. stored'["jsonl"] = stored["jsonl"] /\ stored'["sql"] = stored["sql"] \cup Success(p)
        BY <3>1 DEF TypeOK
      <3>4. Success(p) \subseteq landed \cap (stored["jsonl"] \cup lost)
        BY <3>1, <3>2 DEF Success, SuccessesHold
      <3> QED
        BY <3>1, <3>2, <3>3, <3>4 DEF SuccessesHold, FirstSinkKnows
    <2>5. CASE SqlFails(p)
      <3>1. sink[p] > 1
        BY <2>5, SinkPositions DEF SqlFails
      <3>2. UNCHANGED <<stored, landed, lost, verdict>> /\ pc[p] = "record" /\ Job(p)' = Job(p)
        BY <2>5 DEF SqlFails, At, Job, trailVars
      <3> QED
        BY <3>1, <3>2 DEF SuccessesHold, FirstSinkKnows
    <2>6. CASE BeginAlert(p)
      <3>1. sink[p] > 1
        BY <2>6, SinkPositions DEF BeginAlert
      <3>2. UNCHANGED <<stored, landed, lost, verdict>> /\ pc[p] = "record" /\ Job(p)' = Job(p)
        BY <2>6 DEF BeginAlert, At, Job, trailVars
      <3> QED
        BY <3>1, <3>2 DEF SuccessesHold, FirstSinkKnows
    <2>7. CASE WorkSucceeds(p) \/ WorkMismatches(p)
      <3>1. /\ UNCHANGED <<stored, lost>> /\ sink'[p] = 1 /\ Job(p)' = Job(p)
            /\ verdict'[p] = "success" => Job(p) \in landed'
        BY <2>7 DEF WorkSucceeds, WorkMismatches, Reconciled, Job, TypeOK
      <3> QED
        BY <2>1, <3>1 DEF SuccessesHold, FirstSinkKnows
    <2>8. ASSUME UNCHANGED <<stored, landed>>, lost \subseteq lost', pc'[p] # "record"
          PROVE  Stored /\ Own
      BY <2>8 DEF SuccessesHold, FirstSinkKnows
    <2>9. CASE Start(p) \/ Crash(p)
      <3>1. UNCHANGED <<stored, landed>> /\ pc'[p] # "record"
        BY <2>9 DEF Start, Crash, TypeOK
      <3> QED
        BY <2>1, <2>8, <3>1
    <2>10. CASE NextJob(p) \/ Exit(p) \/ BeginWork(p)
      <3>1. UNCHANGED <<stored, landed>> /\ pc'[p] # "record"
        BY <2>10 DEF NextJob, Exit, BeginWork, trailVars, TypeOK
      <3> QED
        BY <2>1, <2>8, <3>1
    <2>11. CASE Skip(p) \/ EndRecord(p) \/ BuildFails(p) \/ WorkRaises(p)
      <3>1. UNCHANGED <<stored, landed>> /\ pc'[p] # "record"
        BY <2>11 DEF Skip, EndRecord, BuildFails, WorkRaises, Raised, Advance, trailVars, TypeOK
      <3> QED
        BY <2>1, <2>8, <3>1
    <2>12. CASE EndAlert(p)
      <3>1. UNCHANGED <<stored, landed, lost, verdict>> /\ verdict[p] # "success"
        BY <2>12 DEF EndAlert, trailVars, AlertsHold
      <3> QED
        BY <3>1 DEF SuccessesHold, FirstSinkKnows
    <2>13. ASSUME NEW r \in Recipients, SendAlert(p, r) PROVE Stored /\ Own
      <3>1. UNCHANGED <<stored, landed>> /\ pc'[p] # "record"
        BY <2>13 DEF SendAlert
      <3> QED
        BY <2>1, <2>8, <3>1
    <2> HIDE DEF Stored, Own
    <2> QED
      BY <1>2, <2>2, <2>3, <2>4, <2>5, <2>6, <2>7, <2>9, <2>10, <2>11, <2>12, <2>13
      DEF ProcStep, Step
  <1> QED
    BY <1>1, <1>2 DEF Next, ProcStep

----------------------------------------------------------------------------
(* Alerts *)

\* Every step keeps what is known of the alerts about a mismatch.
LEMMA NextAlertsHold == TypeOK /\ AlertsHold /\ [Next]_vars => AlertsHold'
  <1> SUFFICES ASSUME TypeOK, AlertsHold, [Next]_vars PROVE AlertsHold'
    OBVIOUS
  <1>1. CASE UNCHANGED vars
    BY <1>1 DEF vars, procVars, trailVars, AlertsHold, Job
  <1>2. ASSUME NEW p \in Procs, ProcStep(p) PROVE AlertsHold'
    <2> DEFINE Tried(q, r) == <<q, JobList[q][at[q]], r>> \in told \cup missed
               Told(q, r)  == <<q, JobList[q][at'[q]], r>> \in told' \cup missed'
               Alerted(q) ==
                 /\ pc'[q] = "alert" =>
                      /\ verdict'[q] # "success"
                      /\ \A r \in Recipients : r \in pending'[q] \/ Told(q, r)
                 /\ /\ WithAlerts /\ q \in Equipped /\ verdict'[q] # "success"
                    /\ pc'[q] = "record" /\ sink'[q] > Len(Sinks)
                    => \A r \in Recipients : Told(q, r)
    <2> SUFFICES Alerted(p)
      <3>1. ASSUME NEW q \in Procs, q # p PROVE Alerted(q)
        <4>1. /\ pc'[q] = pc[q] /\ sink'[q] = sink[q] /\ verdict'[q] = verdict[q]
              /\ at'[q] = at[q] /\ pending'[q] = pending[q]
          BY <1>2, <3>1, OthersStay
        <4>2. \A r \in Recipients : Tried(q, r) => Told(q, r)
          BY <1>2, <3>1, <4>1, TrailGrows
        <4> QED
          BY <4>1, <4>2 DEF AlertsHold, Job
      <3>2. Alerted(p) => \A q \in Procs : Alerted(q)
        BY <3>1
      <3> QED
        BY <3>2 DEF AlertsHold, Job
    <2>1. CASE Start(p) \/ Crash(p)
      <3>1. pc'[p] \notin {"record", "alert"}
        BY <2>1 DEF Start, Crash, TypeOK
      <3> QED
        BY <3>1
    <2>2. CASE NextJob(p) \/ Exit(p) \/ BeginWork(p)
      <3>1. pc'[p] \notin {"record", "alert"}
        BY <2>2 DEF NextJob, Exit, BeginWork, TypeOK
      <3> QED
        BY <3>1
    <2>3. CASE Skip(p) \/ EndRecord(p) \/ BuildFails(p) \/ WorkRaises(p)
      <3>1. pc'[p] \notin {"record", "alert"}
        BY <2>3 DEF Skip, EndRecord, BuildFails, WorkRaises, Raised, Advance, TypeOK
      <3> QED
        BY <3>1
    <2>4. CASE WorkSucceeds(p) \/ WorkMismatches(p)
      <3>1. pc'[p] = "record" /\ sink'[p] = 1
        BY <2>4 DEF WorkSucceeds, WorkMismatches, Reconciled, TypeOK
      <3>2. WithAlerts => Len(Sinks) > 1
        BY SinksOrder
      <3>3. Len(Sinks) \in Nat
        BY SinksOrder
      <3> QED
        BY <3>1, <3>2, <3>3
    <2>5. CASE AppendJsonl(p) \/ JsonlFails(p) \/ InsertSql(p) \/ SqlFails(p)
      <3>1. /\ pc'[p] = "record" /\ sink'[p] = sink[p] + 1
            /\ At(p, "jsonl") \/ At(p, "sql")
        BY <2>5 DEF AppendJsonl, JsonlFails, InsertSql, SqlFails, PassOver, NextSink, At, TypeOK
      <3>2. WithAlerts => sink[p] < Len(Sinks)
        BY <3>1, SinkPositions
      <3>3. Len(Sinks) \in Nat /\ sink[p] \in Nat
        BY SinksOrder DEF TypeOK
      <3> QED
        BY <3>1, <3>2, <3>3
    <2>6. CASE BeginAlert(p)
      <3>1. CASE verdict[p] = "success"
        <4>1. verdict'[p] = "success" /\ pc'[p] = "record"
          BY <2>6, <3>1 DEF BeginAlert, NextSink, At
        <4> QED
          BY <4>1
      <3>2. CASE verdict[p] # "success"
        <4>1. verdict'[p] # "success" /\ pc'[p] = "alert" /\ pending'[p] = Recipients
          BY <2>6, <3>2 DEF BeginAlert, TypeOK
        <4> QED
          BY <4>1
      <3> QED
        BY <3>1, <3>2
    <2>7. ASSUME NEW r \in Recipients, SendAlert(p, r) PROVE Alerted(p)
      <3>1. /\ pc'[p] = "alert" /\ verdict'[p] # "success" /\ at' = at
            /\ pending'[p] = pending[p] \ {r} /\ Told(p, r)
        BY <2>7 DEF SendAlert, AlertsHold, TypeOK, Job
      <3>2. \A x \in Recipients : x \in pending[p] \/ Tried(p, x)
        BY <2>7 DEF SendAlert, AlertsHold, Job
      <3>3. \A x \in Recipients : Tried(p, x) => Told(p, x)
        BY <2>7 DEF SendAlert
      <3> QED
        BY <3>1, <3>2, <3>3
    <2>8. CASE EndAlert(p)
      <3>1. /\ pc'[p] = "record" /\ UNCHANGED <<at, told, missed>>
            /\ pc[p] = "alert" /\ (p \in Equipped => pending[p] = {})
        BY <2>8 DEF EndAlert, trailVars, TypeOK
      <3>2. p \in Equipped => \A r \in Recipients : Tried(p, r)
        BY <3>1 DEF AlertsHold, Job
      <3> QED
        BY <3>1, <3>2
    <2> HIDE DEF Alerted
    <2> QED
      BY <1>2, <2>1, <2>2, <2>3, <2>4, <2>5, <2>6, <2>7, <2>8 DEF ProcStep, Step
  <1> QED
    BY <1>1, <1>2 DEF Next, ProcStep

----------------------------------------------------------------------------
(* The theorems *)

\* The invariant of the audit trail holds in every reachable state: exit codes
\* only count landed jobs, stored successes are real, and alerts go to everyone.
THEOREM TrailCorrect == Spec => []TrailInv
  <1>1. TrailInv /\ [Next]_vars => TrailInv'
    BY NextTypeOK, NextPositionsHold, NextSuccessesHold, NextAlertsHold DEF TrailInv
  <1> QED
    BY InitTrailInv, <1>1, PTL DEF Spec

\* Every variable keeps its type.
THEOREM TypeCorrect == Spec => []TypeOK
  <1>1. TrailInv => TypeOK
    BY DEF TrailInv
  <1> QED
    BY <1>1, TrailCorrect, PTL

\* Exit code 0 means that every job of the process has a verified success for the
\* date, whatever failed, crashed or was skipped in whichever process.
THEOREM ExitCodeIsHonest == Spec => []ExitZeroMeansLanded
  <1>1. TrailInv => ExitZeroMeansLanded
    <2> SUFFICES ASSUME TrailInv, NEW p \in Procs, pc[p] = "ok",
                        NEW k \in 1..Len(JobList[p])
                 PROVE  JobList[p][k] \in landed
      BY DEF ExitZeroMeansLanded
    <2>1. ~failures[p] /\ at[p] = Len(JobList[p]) + 1
      BY DEF TrailInv, PositionsHold
    <2>2. Len(JobList[p]) \in Nat
      BY AuditAssumption
    <2>3. k \in 1..(at[p] - 1)
      BY <2>1, <2>2
    <2> QED
      BY <2>1, <2>3 DEF TrailInv, PositionsHold
  <1> QED
    BY <1>1, TrailCorrect, PTL

\* Asking the first sink alone misses no success that another one has, except
\* those whose line the JSONL file failed to keep.
THEOREM AskingOneSinkSuffices == Spec => []FirstSinkKnows
  <1>1. TrailInv => FirstSinkKnows
    BY DEF TrailInv
  <1> QED
    BY <1>1, TrailCorrect, PTL

\* Where `requests` is installed, record() of a mismatch ends only when every
\* recipient has been sent the alert or the gateway has refused it.
THEOREM NoMismatchGoesUntold == Spec => MismatchIsTold
  <1>1. TrailInv /\ [Next]_vars =>
          [\A p \in Procs :
             /\ WithAlerts /\ p \in Equipped /\ verdict[p] # "success"
             /\ pc[p] = "record" /\ pc'[p] = "next"
             => \A r \in Recipients : <<p, Job(p), r>> \in told \cup missed]_vars
    <2> SUFFICES ASSUME TrailInv, Next, NEW p \in Procs, WithAlerts, p \in Equipped,
                        verdict[p] # "success",
                        pc[p] = "record", pc'[p] = "next"
                 PROVE  \A r \in Recipients : <<p, Job(p), r>> \in told \cup missed
      OBVIOUS
    <2>1. PICK q \in Procs : ProcStep(q)
      BY DEF Next, ProcStep
    <2>2. q = p
      BY <2>1, OthersStay DEF TrailInv
    <2>3. EndRecord(p)
      BY <2>1, <2>2 DEF ProcStep, Step, Start, Crash, NextJob, Exit, Skip, BeginWork,
         BuildFails, WorkSucceeds, WorkMismatches, WorkRaises, Reconciled, AppendJsonl,
         JsonlFails, InsertSql, SqlFails, PassOver, NextSink, BeginAlert, SendAlert, EndAlert,
         TrailInv, TypeOK, Exits
    <2> QED
      BY <2>3 DEF EndRecord, TrailInv, AlertsHold
  <1> QED
    BY <1>1, TrailCorrect, PTL DEF Spec, MismatchIsTold
=============================================================================
