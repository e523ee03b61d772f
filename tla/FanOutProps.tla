----------------------------- MODULE FanOutProps -----------------------------
(* What the fan-out primitives promise about one (job, processing_date). *)
EXTENDS FanOut

\* the faults that hide rows from the table and are not noticed
SilentFaults == {"lie", "register"} \cap FaultKinds

\* The values each variable takes.
TypeOK ==
  /\ step \in Steps /\ runs \in Nat /\ retries \in Nat /\ faults \in Nat
  /\ paths \subseteq Paths /\ made \subseteq Paths /\ registered \subseteq Paths
  /\ pod \in [Units -> PodStates]
  /\ results \in [Units -> {"none", "torn", "whole"}]
  /\ obs \in CopyCounts
  /\ status \in {"none", "success", "dq_mismatch"}
  /\ surplus \subseteq Rows /\ withheld \subseteq SilentFaults

\* Pods that append to one shared path concurrently, each once, after a single
\* prepare, leave no row there twice, but for a row OBS kept back from that prepare
\* (delete_prefix does not read the per-key errors).
OnlySurplusLandsTwice == \A r \in Rows : obs[r] = 2 => r \in surplus

\* When reconcile records a success, every row the plan covers is in the table
\* exactly once and under a registered partition.  Equal sums hide something only if
\* two silent faults meet: rows left over from before make up for rows that DataX or
\* the metastore withheld from this workflow.
Complete == \A r \in Rows : obs[r] = 1 /\ PathOf[UnitOf[r]] \in registered
Masked == surplus # {} /\ withheld # {}
VerdictIsHonest ==
  [][step = "verify" /\ status' = "success" => Complete \/ Masked]_vars

\* The workflow implements the promise BackupRun makes, too: from the success it
\* ends with until the next one starts, the table is complete and stays so, although
\* pods of one path write it at the same time; again unless the success is masked.
Vouched == step = "done" /\ status = "success" /\ ~Masked
ShownByHive ==
  [r \in Rows |-> IF PathOf[UnitOf[r]] \in registered THEN obs[r] ELSE 0]
Promise == INSTANCE BackupPromise WITH table <- ShownByHive, vouched <- Vouched
KeepsPromise == Promise!Spec

\* A pod that has reported, whatever retries it took, has all its rows in the
\* table's files, and no pod of the same path takes them away again.
ReportedMeansLanded ==
  \A u \in Units : pod[u] = "reported" => \A r \in RowsOf(u) : obs[r] >= 1

\* A workflow in which nothing fails ends with a success.
CleanRunSucceeds ==
  step = "done" /\ runs > 0 /\ faults = 0 => status = "success"

----------------------------------------------------------------------------
(* The strengthening of OnlySurplusLandsTwice and VerdictIsHonest that is  *)
(* inductive when prepare runs first and no pod is retried.                *)

Empty(u) == \A r \in RowsOf(u) : obs[r] = 0 \/ r \in surplus

\* what a pod may still write is not there yet, or is surplus
TargetsAreEmpty ==
  /\ step = "prepare" => \A u \in PlannedUnits :
       pod[u] = "waiting" /\ (PathOf[u] \notin paths => Empty(u))
  /\ step = "fanout" => \A u \in PlannedUnits :
       pod[u] \in {"waiting", "exported"} => Empty(u)

\* reconcile sees a result of every planned unit
ReportsAreKept ==
  /\ \A u \in PlannedUnits : pod[u] = "reported" => results[u] = "whole"
  /\ step \in {"register", "verify"} => AllPodsReported

\* each pod appends once, to a path that prepare went over
PodsAppendOnce ==
  /\ TypeOK /\ retries = 0
  /\ OnlySurplusLandsTwice
  /\ TargetsAreEmpty

\* The inductive invariant: the pods do, and reconcile judges the plan as a whole.
FanOutInv == PodsAppendOnce /\ ReportsAreKept

----------------------------------------------------------------------------
(* Two more: behind ReportedMeansLanded, with pods retried, and behind     *)
(* CleanRunSucceeds.                                                       *)

Landed(u) == \A r \in RowsOf(u) : obs[r] >= 1

\* prepare clears before any pod has written
PodsWaitForPrepare == step = "prepare" => \A u \in Units : pod[u] = "waiting"
WritersHaveLanded ==
  "lie" \notin withheld =>
    \A u \in Units : pod[u] \in {"written", "reported"} => Landed(u)

RetryInv == TypeOK /\ PodsWaitForPrepare /\ WritersHaveLanded

\* as long as nothing failed, everything planned gets its path, its rows, its
\* result and its partition
CleanInv ==
  /\ PodsAppendOnce /\ PodsWaitForPrepare
  /\ faults = 0 =>
       /\ ReportsAreKept /\ WritersHaveLanded
       /\ surplus = {} /\ withheld = {}
       /\ \A u \in Units : pod[u] # "failed" /\ results[u] # "torn"
       /\ step # "done" => \A u \in PlannedUnits :
            PathOf[u] \in made \/ (step = "prepare" /\ PathOf[u] \in paths)
       /\ step \in {"register", "verify"} =>
            \A u \in PlannedUnits :
              PathOf[u] \in registered \/ (step = "register" /\ PathOf[u] \in paths)
       /\ CleanRunSucceeds

----------------------------------------------------------------------------
(* The strengthenings behind HonestVerdict and KeepsPromise with pods retried. *)

\* reconcile goes by a result of every planned unit and adds their partitions
VerdictInv ==
  /\ RetryInv
  /\ ReportsAreKept
  /\ "register" \notin withheld /\ step \in {"register", "verify"} =>
       \A u \in PlannedUnits :
         PathOf[u] \in registered \/ (step = "register" /\ PathOf[u] \in paths)

\* a workflow under way has no verdict yet, and one that succeeded left all there
PromiseInv == (step # "done" => status = "none") /\ (Vouched => Complete)

----------------------------------------------------------------------------
(* The safety half of WorkflowEnds: a workflow cannot go on for ever.      *)

\* how many pods are in one of these states
PodsIn(states, pods) == Cardinality({u \in PlannedUnits : pods[u] \in states})

\* what the pods have before them: a pod that waits has three steps to its result,
\* and a retry takes one back by three at most
PodWork ==
  PodsIn({"waiting"}, pod) + PodsIn({"waiting", "exported"}, pod)
    + PodsIn({"waiting", "exported", "written"}, pod) + 3 * retries

\* no more steps than this until the workflow has ended
StepsLeft ==
  CASE step = "prepare"  -> Cardinality(paths) + PodWork + Cardinality(Units) + 4
    [] step = "fanout"   -> PodWork + Cardinality(Units) + 3
    [] step = "register" -> Cardinality(paths) + 2
    [] step = "verify"   -> 1
    [] step = "done"     -> 0

\* Whatever a workflow does, fault or not, brings its end closer.
WorkflowsAreBounded == [][step # "done" => StepsLeft' < StepsLeft]_vars

----------------------------------------------------------------------------
\* Whatever its pods do, a workflow comes to an end.
WorkflowEnds == (step # "done") ~> (step = "done")
=============================================================================
