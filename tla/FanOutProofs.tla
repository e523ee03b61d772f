----------------------------- MODULE FanOutProofs -----------------------------
(***************************************************************************)
(* Proofs about FanOut for every plan, every number of workflow runs and   *)
(* every number of failures.                                               *)
(***************************************************************************)
EXTENDS FanOutProps, LayoutProofs

\* The workflow prepares its paths and starts no pod a second time.
OnePodEach == Prepares /\ MaxRetries = 0

\* Its reconcile waits for all pods and reads one result file of each.
ReadsAllResults == WaitsForAll /\ ~OneResultFile

USE DEF history

----------------------------------------------------------------------------
(* Type correctness *)

\* The planned units are units, and their paths are paths.
LEMMA PlanType == PlannedUnits \subseteq Units /\ PathsToClear \subseteq Paths
  BY LayoutAssumption DEF PlannedUnits, PathsToClear

\* Appending keeps every copy count within bounds.
LEMMA AppendType ==
  ASSUME NEW u, NEW S, Append(u, S), obs \in CopyCounts
  PROVE  obs' \in CopyCounts
  BY DEF Append, AfterLanding, CopyCounts

\* What is left of a path after clearing is well formed, too.
LEMMA ClearType ==
  ASSUME NEW p, NEW K \in SUBSET RowsAt(p), obs \in CopyCounts, surplus \subseteq Rows
  PROVE  /\ AfterClearing(obs, p, K) \in CopyCounts
         /\ Clear(p, K) => obs' \in CopyCounts /\ surplus' \subseteq Rows
  BY DEF Clear, AfterClearing, CopyCounts, RowsAt

\* Saving a result keeps the result files well formed.
LEMMA SaveType ==
  ASSUME NEW u, NEW s \in {"none", "torn", "whole"}, SaveResult(u, s),
         results \in [Units -> {"none", "torn", "whole"}]
  PROVE  results' \in [Units -> {"none", "torn", "whole"}]
  BY DEF SaveResult

\* A failing pod is started again or given up.
LEMMA FailType ==
  ASSUME NEW u, Fail(u), TypeOK
  PROVE  retries' \in Nat /\ pod' \in [Units -> PodStates]
  BY DEF Fail, TypeOK, PodStates

\* Init establishes the type invariant.
LEMMA InitTypeOK == Init => TypeOK
  <1>1. Init => obs \in CopyCounts
    BY DEF Init, NoCopies, CopyCounts
  <1> QED
    BY <1>1, FanOutAssumption DEF Init, TypeOK, Steps, PodStates

\* Every step keeps the type invariant.
LEMMA NextTypeOK == TypeOK /\ [Next]_vars => TypeOK'
  <1> SUFFICES ASSUME TypeOK, [Next]_vars PROVE TypeOK'
    OBVIOUS
  <1> USE DEF TypeOK
  <1>1. CASE UNCHANGED vars \/ Finished
    BY <1>1 DEF Finished, vars
  <1>2. CASE StartWorkflow
    BY <1>2, PlanType, FanOutAssumption DEF StartWorkflow, Begin, Steps, PodStates
  <1>3. ASSUME NEW p \in paths, NEW K \in SUBSET RowsAt(p),
               ClearPath(p) \/ ClearPathLeavesRows(p, K)
        PROVE  TypeOK'
    <2>1. \E L \in SUBSET RowsAt(p) : Clear(p, L)
      BY <1>3 DEF ClearPath, ClearPathLeavesRows
    <2>2. obs' \in CopyCounts /\ surplus' \subseteq Rows
      BY <2>1, ClearType
    <2>3. /\ paths' = paths \ {p} /\ made' = made \cup {p} /\ faults' \in Nat
          /\ UNCHANGED <<step, runs, pod, retries, results, registered, status, withheld>>
      BY <1>3 DEF ClearPath, ClearPathLeavesRows, Fault
    <2> QED
      BY <2>2, <2>3
  <1>15. ASSUME NEW p \in paths, NEW K \in SUBSET RowsAt(p), PrepareDies(p, K) PROVE TypeOK'
    BY <1>15, ClearType DEF PrepareDies, Fault, Steps, PodStates
  <1>4. CASE FanOut \/ StartVerify \/ NoVerdict
    BY <1>4 DEF FanOut, StartVerify, NoVerdict, Steps
  <1>5. ASSUME NEW u \in Units, Export(u) PROVE TypeOK'
    BY <1>5 DEF Export, PodStates
  <1>6. ASSUME NEW u \in Units, Write(u) PROVE TypeOK'
    BY <1>6, AppendType DEF Write, PodStates
  <1>7. ASSUME NEW u \in Units, NEW S, WriteDropsRows(u, S) PROVE TypeOK'
    BY <1>7, AppendType DEF WriteDropsRows, Fault, PodStates, SilentFaults
  <1>8. ASSUME NEW u \in Units, WriteRefused(u) PROVE TypeOK'
    BY <1>8, FailType DEF WriteRefused
  <1>9. ASSUME NEW u \in Units, NEW S, DieBeforeWritten(u, S) PROVE TypeOK'
    BY <1>9, AppendType, FailType DEF DieBeforeWritten, Fault
  <1>10. ASSUME NEW u \in Units, NEW torn \in BOOLEAN, DieReporting(u, torn)
         PROVE  TypeOK'
    BY <1>10, SaveType, FailType DEF DieReporting, Fault
  <1>11. ASSUME NEW u \in Units, WriteResult(u) PROVE TypeOK'
    BY <1>11, SaveType DEF WriteResult, PodStates
  <1>12. CASE Reconcile
    BY <1>12, LayoutAssumption DEF Reconcile, Reported, Steps
  <1>13. ASSUME NEW p \in paths, Register(p) \/ RegisterFails(p) PROVE TypeOK'
    <2>1. Register(p) => TypeOK'
      BY <1>13 DEF Register
    <2>2. RegisterFails(p) => TypeOK'
      BY <1>13 DEF RegisterFails, Fault, SilentFaults
    <2> QED BY <1>13, <2>1, <2>2
  <1>14. CASE Verify \/ VerifyBlind
    <2>1. status' \in {"none", "success", "dq_mismatch"} /\ step' = "done" /\ faults' \in Nat
      BY <1>14 DEF Verify, VerifyBlind, Verdict, Fault
    <2>2. UNCHANGED <<runs, paths, made, pod, retries, results, obs, registered, history>>
      BY <1>14 DEF Verify, VerifyBlind
    <2> QED BY <2>1, <2>2 DEF Steps
  <1> QED
    BY <1>1, <1>2, <1>3, <1>4, <1>5, <1>6, <1>7, <1>8, <1>9, <1>10, <1>11,
       <1>12, <1>13, <1>14, <1>15
    DEF Next, Work, PodStep, Failure

\* In every state of every execution the variables have their types.
THEOREM TypeCorrect == Spec => []TypeOK
  BY InitTypeOK, NextTypeOK, PTL DEF Spec

----------------------------------------------------------------------------
(* The inductive invariant *)

\* What a pod appends where only surplus rows of its unit are is there once but
\* for those, and other units' rows stay as they were.
LEMMA AppendToEmpty ==
  ASSUME NEW u \in Units, NEW S \in SUBSET RowsOf(u), Append(u, S), TypeOK,
         surplus' = surplus, OnlySurplusLandsTwice, S = {} \/ Empty(u)
  PROVE  /\ OnlySurplusLandsTwice'
         /\ \A w \in Units : w # u /\ Empty(w) => Empty(w)'
  BY DEF Append, AfterLanding, CopyCounts, TypeOK, OnlySurplusLandsTwice, Empty, RowsOf

\* With no retries left a failed pod stays failed.
LEMMA FailIsFinal ==
  ASSUME NEW u \in Units, Fail(u), retries = 0, TypeOK
  PROVE  retries' = 0 /\ pod' = [pod EXCEPT ![u] = "failed"]
  BY DEF Fail, TypeOK

\* The initial state satisfies the invariant.
LEMMA InitFanOutInv == ASSUME OnePodEach PROVE Init => FanOutInv
  <1> SUFFICES ASSUME Init PROVE FanOutInv
    OBVIOUS
  <1>1. TypeOK
    BY InitTypeOK
  <1>2. OnlySurplusLandsTwice
    BY DEF Init, NoCopies, OnlySurplusLandsTwice
  <1> QED
    BY <1>1, <1>2, PlanType
    DEF Init, FanOutInv, PodsAppendOnce, TargetsAreEmpty, ReportsAreKept, OnePodEach

\* Every step keeps pods that append once, whichever results reconcile reads.
LEMMA NextAppendsOnce ==
  ASSUME OnePodEach
  PROVE  PodsAppendOnce /\ [Next]_vars => PodsAppendOnce'
  <1> SUFFICES ASSUME PodsAppendOnce, [Next]_vars PROVE PodsAppendOnce'
    OBVIOUS
  <1>t. TypeOK /\ TypeOK' /\ PlannedUnits \subseteq Units
    BY NextTypeOK, PlanType DEF PodsAppendOnce
  <1> USE <1>t DEF PodsAppendOnce
  <1>1. CASE UNCHANGED vars \/ Finished
    BY <1>1 DEF Finished, vars, OnlySurplusLandsTwice, TargetsAreEmpty, Empty
  <1>2. CASE StartWorkflow
    <2>1. step' = "prepare" /\ retries' = 0 /\ paths' = PathsToClear
      BY <1>2 DEF StartWorkflow, Begin, OnePodEach
    <2>2. \A u \in PlannedUnits : pod'[u] = "waiting"
      BY <1>2 DEF StartWorkflow, Begin
    <2> QED
      BY <1>2, <2>1, <2>2 DEF StartWorkflow, OnlySurplusLandsTwice, TargetsAreEmpty, PathsToClear
  <1>3. ASSUME NEW p \in paths, NEW K \in SUBSET RowsAt(p),
               ClearPath(p) \/ ClearPathLeavesRows(p, K)
        PROVE  PodsAppendOnce'
    <2>1. \E L \in SUBSET RowsAt(p) : Clear(p, L)
      BY <1>3 DEF ClearPath, ClearPathLeavesRows
    <2>2. \A r \in RowsAt(p) : obs'[r] = 0 \/ r \in surplus'
      BY <2>1 DEF Clear, AfterClearing, RowsAt, TypeOK, CopyCounts
    <2>3. \A r \in Rows \ RowsAt(p) : obs'[r] = obs[r] /\ (r \in surplus' <=> r \in surplus)
      BY <2>1 DEF Clear, AfterClearing
    <2>4. \A u \in Units : Empty(u) \/ PathOf[u] = p => Empty(u)'
      BY <2>2, <2>3 DEF Empty, RowsOf, RowsAt
    <2>5. OnlySurplusLandsTwice'
      BY <2>2, <2>3 DEF OnlySurplusLandsTwice
    <2>6. step' = step /\ step = "prepare" /\ paths' = paths \ {p} /\ UNCHANGED <<pod, retries>>
      BY <1>3 DEF ClearPath, ClearPathLeavesRows
    <2> QED
      BY <2>4, <2>5, <2>6 DEF TargetsAreEmpty
  <1>15. ASSUME NEW p \in paths, NEW K \in SUBSET RowsAt(p), PrepareDies(p, K)
         PROVE  PodsAppendOnce'
    <2>1. \A r \in Rows : obs'[r] \in {0, obs[r]} /\ surplus' = surplus
      BY <1>15 DEF PrepareDies, AfterClearing, TypeOK, CopyCounts
    <2>2. step' = "fanout" /\ retries' = 0 /\ \A u \in Units : pod'[u] = "failed"
      BY <1>15 DEF PrepareDies
    <2> QED
      BY <2>1, <2>2 DEF OnlySurplusLandsTwice, TargetsAreEmpty
  <1>4. CASE FanOut \/ StartVerify \/ NoVerdict
    BY <1>4 DEF FanOut, StartVerify, NoVerdict, OnlySurplusLandsTwice, TargetsAreEmpty, Empty
  <1>5. ASSUME NEW u \in Units, Export(u) PROVE PodsAppendOnce'
    BY <1>5 DEF Export, Running, OnlySurplusLandsTwice, TargetsAreEmpty, Empty, TypeOK
  <1>6. ASSUME NEW u \in Units, Write(u) PROVE PodsAppendOnce'
    <2>1. Empty(u) /\ Append(u, RowsOf(u))
      BY <1>6 DEF Write, Running, TargetsAreEmpty
    <2> QED
      BY <1>6, <2>1, AppendToEmpty DEF Write, Running, TargetsAreEmpty, TypeOK
  <1>7. ASSUME NEW u \in Units, NEW S \in SUBSET RowsOf(u), WriteDropsRows(u, S)
        PROVE  PodsAppendOnce'
    <2>1. Empty(u) /\ Append(u, S)
      BY <1>7 DEF WriteDropsRows, Running, TargetsAreEmpty
    <2> QED
      BY <1>7, <2>1, AppendToEmpty DEF WriteDropsRows, Running, TargetsAreEmpty, TypeOK
  <1>8. ASSUME NEW u \in Units, WriteRefused(u) PROVE PodsAppendOnce'
    BY <1>8, FailIsFinal DEF WriteRefused, Running, OnlySurplusLandsTwice, TargetsAreEmpty, Empty, TypeOK
  <1>9. ASSUME NEW u \in Units, NEW S \in SUBSET RowsOf(u), DieBeforeWritten(u, S)
        PROVE  PodsAppendOnce'
    <2>1. Empty(u) /\ Append(u, S)
      BY <1>9 DEF DieBeforeWritten, Running, TargetsAreEmpty
    <2>2. step = "fanout" /\ step' = "fanout" /\ surplus' = surplus
      BY <1>9 DEF DieBeforeWritten, Running
    <2>3. retries' = 0 /\ pod' = [pod EXCEPT ![u] = "failed"]
      BY <1>9, FailIsFinal DEF DieBeforeWritten
    <2> QED
      BY <2>1, <2>2, <2>3, AppendToEmpty DEF TargetsAreEmpty, TypeOK
  <1>10. ASSUME NEW u \in Units, NEW torn \in BOOLEAN, DieReporting(u, torn)
         PROVE  PodsAppendOnce'
    <2>1. retries' = 0 /\ pod' = [pod EXCEPT ![u] = "failed"]
      BY <1>10, FailIsFinal DEF DieReporting
    <2> QED
      BY <1>10, <2>1 DEF DieReporting, Running, OnlySurplusLandsTwice, TargetsAreEmpty, Empty, TypeOK
  <1>11. ASSUME NEW u \in Units, WriteResult(u) PROVE PodsAppendOnce'
    BY <1>11 DEF WriteResult, Running, OnlySurplusLandsTwice, TargetsAreEmpty, Empty, TypeOK
  <1>12. CASE Reconcile
    BY <1>12 DEF Reconcile, MayReconcile, OnlySurplusLandsTwice, TargetsAreEmpty, Empty
  <1>13. ASSUME NEW p \in paths, Register(p) \/ RegisterFails(p) PROVE PodsAppendOnce'
    BY <1>13 DEF Register, RegisterFails, Fault, OnlySurplusLandsTwice, TargetsAreEmpty
  <1>14. CASE Verify \/ VerifyBlind
    BY <1>14 DEF Verify, VerifyBlind, OnlySurplusLandsTwice, TargetsAreEmpty
  <1> QED
    BY <1>1, <1>2, <1>3, <1>4, <1>5, <1>6, <1>7, <1>8, <1>9, <1>10, <1>11,
       <1>12, <1>13, <1>14, <1>15
    DEF Next, Work, PodStep, Failure

\* A failing pod starts over or has failed for good, the others do not notice.
LEMMA FailChanges ==
  ASSUME NEW u \in Units, Fail(u), TypeOK
  PROVE  /\ pod'[u] \in {"waiting", "failed"}
         /\ \A w \in Units : w # u => pod'[w] = pod[w]
  BY DEF Fail, TypeOK

\* Where each pod keeps its result file and reconcile comes when all have reported, it
\* sees a result of every planned unit.
LEMMA NextReportsAreKept ==
  ASSUME ~OneResultFile, MayReconcile => AllPodsReported, TypeOK, ReportsAreKept, [Next]_vars
  PROVE  ReportsAreKept'
  <1>t. PlannedUnits \subseteq Units
    BY PlanType
  <1> USE <1>t DEF ReportsAreKept, AllPodsReported
  <1>1. CASE UNCHANGED vars \/ Finished
    BY <1>1 DEF Finished, vars
  <1>2. CASE StartWorkflow
    BY <1>2 DEF StartWorkflow, Begin
  <1>3. ASSUME NEW p \in paths, NEW K,
               ClearPath(p) \/ ClearPathLeavesRows(p, K) \/ Register(p) \/ RegisterFails(p)
        PROVE  ReportsAreKept'
    BY <1>3 DEF ClearPath, ClearPathLeavesRows, Register, RegisterFails, Fault
  <1>10. ASSUME NEW p \in paths, NEW K, PrepareDies(p, K) PROVE ReportsAreKept'
    BY <1>10 DEF PrepareDies
  <1>4. CASE FanOut \/ NoVerdict \/ StartVerify \/ Verify \/ VerifyBlind
    BY <1>4 DEF FanOut, NoVerdict, StartVerify, Verify, VerifyBlind
  <1>5. ASSUME NEW u \in Units, NEW S, Export(u) \/ Write(u) \/ WriteDropsRows(u, S)
        PROVE  ReportsAreKept'
    <2>1. \A w \in Units : pod'[w] = pod[w] \/ pod'[w] \in {"exported", "written"}
      BY <1>5 DEF Export, Write, WriteDropsRows, TypeOK
    <2>2. step' = "fanout" /\ results' = results
      BY <1>5 DEF Export, Write, WriteDropsRows, Running
    <2> QED
      BY <2>1, <2>2
  <1>6. ASSUME NEW u \in Units, NEW S, WriteRefused(u) \/ DieBeforeWritten(u, S)
        PROVE  ReportsAreKept'
    <2>1. Fail(u) /\ step' = "fanout" /\ results' = results
      BY <1>6 DEF WriteRefused, DieBeforeWritten, Running
    <2> QED
      BY <2>1, FailChanges
  <1>7. ASSUME NEW u \in Units, NEW torn \in BOOLEAN, DieReporting(u, torn)
        PROVE  ReportsAreKept'
    <2>1. Fail(u) /\ step' = "fanout"
      BY <1>7 DEF DieReporting, Running
    <2>2. \A w \in Units : w # u => results'[w] = results[w]
      BY <1>7 DEF DieReporting, SaveResult, TypeOK
    <2> QED
      BY <2>1, <2>2, FailChanges
  <1>8. ASSUME NEW u \in Units, WriteResult(u) PROVE ReportsAreKept'
    <2>1. results' = [results EXCEPT ![u] = "whole"] /\ step' = "fanout"
      BY <1>8 DEF WriteResult, SaveResult, Running
    <2> QED
      BY <1>8, <2>1 DEF WriteResult, TypeOK
  <1>9. CASE Reconcile
    BY <1>9 DEF Reconcile
  <1> QED
    BY <1>1, <1>2, <1>3, <1>4, <1>5, <1>6, <1>7, <1>8, <1>9, <1>10
    DEF Next, Work, PodStep, Failure

\* Every step keeps the invariant.
LEMMA NextFanOutInv ==
  ASSUME OnePodEach, ReadsAllResults
  PROVE  FanOutInv /\ [Next]_vars => FanOutInv'
  BY NextAppendsOnce, NextReportsAreKept
  DEF FanOutInv, PodsAppendOnce, ReadsAllResults, MayReconcile

\* Pods that share a path and append to it in any order, each at most once
\* after one prepare, leave no row there twice but one that prepare left over.
THEOREM NoDuplicates ==
  ASSUME OnePodEach
  PROVE  Spec => []OnlySurplusLandsTwice
  <1>1. Init => PodsAppendOnce
    BY InitFanOutInv DEF FanOutInv
  <1>2. PodsAppendOnce /\ [Next]_vars => PodsAppendOnce'
    BY NextAppendsOnce
  <1>3. PodsAppendOnce => OnlySurplusLandsTwice
    BY DEF PodsAppendOnce
  <1> QED BY <1>1, <1>2, <1>3, PTL DEF Spec

----------------------------------------------------------------------------
(* A verdict over all units is honest. *)

\* When every planned unit has reported, verify() counts the whole source.
LEMMA ScopeIsEverything ==
  ASSUME FanOutInv, step = "verify" PROVE SourceScope = Rows
  <1>1. ASSUME Dynamic, NEW r \in Rows
        PROVE  UnitOf[r] \in Reported
    BY <1>1, LayoutAssumption
    DEF FanOutInv, PodsAppendOnce, ReportsAreKept, AllPodsReported, PlannedUnits, Reported
  <1> QED BY <1>1 DEF SourceScope

\* Only reconcile's own count comparison ends the step in which it is made.
LEMMA VerdictSteps ==
  ASSUME Next, step = "verify"
  PROVE  (Verify \/ VerifyBlind) /\ (Verdict(HiveCount) \/ Verdict(0))
  <1>1. Verify \/ VerifyBlind
    BY DEF Next, StartWorkflow, Finished, Work, Failure, ClearPath, Register, FanOut,
      PodStep, Export, Write, WriteRefused, WriteResult, Reconcile, NoVerdict,
      StartVerify, WriteDropsRows, DieBeforeWritten, DieReporting, RegisterFails,
      ClearPathLeavesRows, PrepareDies, Running
  <1> QED BY <1>1 DEF Verify, VerifyBlind

\* What a verdict of success says of the table when prepare left nothing over.
LEMMA VerdictOverOnePodEach ==
  ASSUME FanOutInv, Next, step = "verify", status' = "success", surplus = {}
  PROVE  Complete
  <1>1. Cardinality(Rows) = HiveCount \/ Cardinality(Rows) = 0
    BY VerdictSteps, ScopeIsEverything DEF Verdict
  <1>2. CASE Cardinality(Rows) = HiveCount
    BY <1>2, EqualCountsMeanComplete
    DEF FanOutInv, PodsAppendOnce, TypeOK, OnlySurplusLandsTwice, HiveCount, Complete
  <1>3. CASE Cardinality(Rows) = 0
    BY <1>3, ZeroCountMeansNoRows DEF Complete
  <1> QED BY <1>1, <1>2, <1>3

\* The inductive invariant itself.
THEOREM FanOutCorrect ==
  ASSUME OnePodEach, ReadsAllResults
  PROVE  Spec => []FanOutInv
  <1>1. Init => FanOutInv
    BY InitFanOutInv
  <1>2. FanOutInv /\ [Next]_vars => FanOutInv'
    BY NextFanOutInv
  <1> QED BY <1>1, <1>2, PTL DEF Spec

----------------------------------------------------------------------------
(* Pods that are retried: what has reported has landed. *)

\* What a pod appends stays, and takes nothing away.
LEMMA AppendKeeps ==
  ASSUME NEW u \in Units, NEW S, Append(u, S), TypeOK
  PROVE  /\ \A w \in Units : Landed(w) => Landed(w)'
         /\ S = RowsOf(u) => Landed(u)'
  <1>1. \A r \in Rows : obs[r] \in 0..2
    BY DEF TypeOK, CopyCounts
  <1>2. \A r \in Rows : obs'[r] = IF r \in S /\ obs[r] < 2 THEN obs[r] + 1 ELSE obs[r]
    BY DEF Append, AfterLanding
  <1> QED
    BY <1>1, <1>2 DEF Landed, RowsOf

\* Every step keeps the pods' invariants.
LEMMA NextKeepsLanded ==
  ASSUME TypeOK, PodsWaitForPrepare, WritersHaveLanded, [Next]_vars
  PROVE  PodsWaitForPrepare' /\ WritersHaveLanded'
  <1> USE DEF PodsWaitForPrepare, WritersHaveLanded
  <1>1. ASSUME obs' = obs, "lie" \in withheld => "lie" \in withheld',
               step' # "prepare" \/ step' = step,
               \A u \in Units : pod'[u] = pod[u] \/ pod'[u] \notin {"written", "reported"},
               step' = "prepare" => pod' = pod
        PROVE  PodsWaitForPrepare' /\ WritersHaveLanded'
    BY <1>1 DEF Landed
  <1>2. CASE UNCHANGED vars \/ Finished
    BY <1>1, <1>2 DEF Finished, vars
  <1>3. CASE StartWorkflow
    BY <1>3 DEF StartWorkflow, Begin
  <1>4. ASSUME NEW p \in paths, NEW K,
               ClearPath(p) \/ ClearPathLeavesRows(p, K) \/ PrepareDies(p, K)
        PROVE  PodsWaitForPrepare' /\ WritersHaveLanded'
    BY <1>4 DEF ClearPath, ClearPathLeavesRows, PrepareDies
  <1>5. ASSUME NEW p \in paths, Register(p) \/ RegisterFails(p)
        PROVE  PodsWaitForPrepare' /\ WritersHaveLanded'
    BY <1>1, <1>5 DEF Register, RegisterFails
  <1>6. CASE FanOut \/ Reconcile \/ NoVerdict \/ StartVerify \/ Verify \/ VerifyBlind
    BY <1>1, <1>6 DEF FanOut, Reconcile, NoVerdict, StartVerify, Verify, VerifyBlind
  <1>7. ASSUME NEW u \in Units, Export(u) PROVE PodsWaitForPrepare' /\ WritersHaveLanded'
    <2>1. \A w \in Units : pod'[w] = IF w = u THEN "exported" ELSE pod[w]
      BY <1>7 DEF Export, TypeOK
    <2> QED
      BY <1>1, <1>7, <2>1 DEF Export, Running
  <1>8. ASSUME NEW u \in Units, Write(u) PROVE PodsWaitForPrepare' /\ WritersHaveLanded'
    <2>1. \A w \in Units : pod'[w] = IF w = u THEN "written" ELSE pod[w]
      BY <1>8 DEF Write, TypeOK
    <2>2. Append(u, RowsOf(u)) /\ step' = "fanout" /\ withheld' = withheld
      BY <1>8 DEF Write, Running
    <2> QED
      BY <2>1, <2>2, AppendKeeps
  <1>9. ASSUME NEW u \in Units, NEW torn \in BOOLEAN, WriteRefused(u) \/ DieReporting(u, torn)
        PROVE  PodsWaitForPrepare' /\ WritersHaveLanded'
    <2>1. Fail(u) /\ obs' = obs /\ step = "fanout" /\ step' = step /\ withheld' = withheld
      BY <1>9 DEF WriteRefused, DieReporting, Running
    <2> QED
      BY <1>1, <2>1, FailChanges
  <1>10. ASSUME NEW u \in Units, NEW S \in SUBSET RowsOf(u), DieBeforeWritten(u, S)
         PROVE  PodsWaitForPrepare' /\ WritersHaveLanded'
    <2>1. /\ Fail(u) /\ Append(u, S)
          /\ step = "fanout" /\ step' = step /\ withheld' = withheld
      BY <1>10 DEF DieBeforeWritten, Running
    <2>2. \A w \in Units : Landed(w) => Landed(w)'
      BY <2>1, AppendKeeps
    <2>3. \A w \in Units : pod'[w] \in {"written", "reported"} => pod[w] = pod'[w]
      BY <2>1, FailChanges
    <2> QED
      BY <2>1, <2>2, <2>3
  <1>11. ASSUME NEW u \in Units, WriteResult(u) PROVE PodsWaitForPrepare' /\ WritersHaveLanded'
    <2>1. \A w \in Units : pod'[w] = IF w = u THEN "reported" ELSE pod[w]
      BY <1>11 DEF WriteResult, TypeOK
    <2>2. pod[u] = "written" /\ obs' = obs /\ step = "fanout" /\ step' = step
      BY <1>11 DEF WriteResult, Running
    <2> QED
      BY <1>11, <2>1, <2>2 DEF Landed, WriteResult
  <1>12. ASSUME NEW u \in Units, NEW S, WriteDropsRows(u, S)
         PROVE  PodsWaitForPrepare' /\ WritersHaveLanded'
    BY <1>12 DEF WriteDropsRows, Running
  <1> QED
    BY <1>2, <1>3, <1>4, <1>5, <1>6, <1>7, <1>8, <1>9, <1>10, <1>11, <1>12
    DEF Next, Work, PodStep, Failure

\* Initially no pod has run.
LEMMA InitLanded == Init => PodsWaitForPrepare /\ WritersHaveLanded
  BY DEF Init, PodsWaitForPrepare, WritersHaveLanded

\* ReportedMeansLanded for any number of retries and of runs of the workflow,
\* prepared or not, as long as DataX does not lie.
THEOREM ReportsAreTrue ==
  ASSUME "lie" \notin FaultKinds
  PROVE  Spec => []ReportedMeansLanded
  <1>1. Init => RetryInv
    BY InitTypeOK, InitLanded DEF RetryInv
  <1>2. RetryInv /\ [Next]_vars => RetryInv'
    BY NextTypeOK, NextKeepsLanded DEF RetryInv
  <1>3. RetryInv => ReportedMeansLanded
    BY DEF RetryInv, TypeOK, SilentFaults, WritersHaveLanded, ReportedMeansLanded, Landed
  <1> QED BY <1>1, <1>2, <1>3, PTL DEF Spec

----------------------------------------------------------------------------
(* A verdict over retried pods is honest, too. *)

\* Neither DataX nor add_partition reports what it has not done.
TruthfulTools == "lie" \notin FaultKinds /\ "register" \notin FaultKinds

\* Initially nothing has been reported.
LEMMA InitVerdictInv == Init => VerdictInv
  BY InitTypeOK, InitLanded, PlanType DEF Init, VerdictInv, RetryInv, ReportsAreKept

\* Every step keeps VerdictInv.
LEMMA NextVerdictInv ==
  ASSUME ReadsAllResults, VerdictInv, [Next]_vars
  PROVE  VerdictInv'
  <1>t. TypeOK /\ PlannedUnits \subseteq Units /\ RetryInv' /\ ReportsAreKept'
    BY NextTypeOK, NextKeepsLanded, NextReportsAreKept, PlanType
    DEF VerdictInv, RetryInv, ReadsAllResults, MayReconcile
  <1> USE <1>t DEF VerdictInv
  <1>1. CASE UNCHANGED vars \/ Finished
    BY <1>1 DEF Finished, vars
  <1>2. CASE StartWorkflow
    BY <1>2 DEF StartWorkflow, Begin
  <1>3. ASSUME NEW p \in paths, NEW K,
               ClearPath(p) \/ ClearPathLeavesRows(p, K) \/ PrepareDies(p, K)
        PROVE  VerdictInv'
    BY <1>3 DEF ClearPath, ClearPathLeavesRows, PrepareDies
  <1>4. CASE FanOut \/ NoVerdict \/ StartVerify \/ Verify \/ VerifyBlind
    BY <1>4 DEF FanOut, NoVerdict, StartVerify, Verify, VerifyBlind
  <1>5. ASSUME NEW u \in Units, NEW S, NEW torn \in BOOLEAN,
               \/ Export(u) \/ Write(u) \/ WriteRefused(u) \/ WriteResult(u)
               \/ DieBeforeWritten(u, S) \/ DieReporting(u, torn) \/ WriteDropsRows(u, S)
        PROVE  VerdictInv'
    <2>1. step' = "fanout"
      BY <1>5 DEF Export, Write, WriteRefused, WriteResult, DieBeforeWritten, DieReporting,
         WriteDropsRows, Running
    <2> QED
      BY <2>1
  <1>6. CASE Reconcile
    <2>1. AllPodsReported
      BY <1>6 DEF Reconcile, MayReconcile, ReadsAllResults
    <2>2. \A u \in PlannedUnits : PathOf[u] \in paths'
      BY <1>t, <1>6, <2>1 DEF Reconcile, Reported, AllPodsReported, VerdictInv, ReportsAreKept
    <2> QED
      BY <1>6, <2>2 DEF Reconcile
  <1>7. ASSUME NEW p \in paths, Register(p) PROVE VerdictInv'
    BY <1>7 DEF Register
  <1>8. ASSUME NEW p \in paths, RegisterFails(p) PROVE VerdictInv'
    BY <1>8 DEF RegisterFails
  <1> QED
    BY <1>1, <1>2, <1>3, <1>4, <1>5, <1>6, <1>7, <1>8
    DEF Next, Work, PodStep, Failure

\* What a verdict of success says of the table when nothing was withheld.
LEMMA VerdictOverRetries ==
  ASSUME VerdictInv, Next, step = "verify", status' = "success", withheld = {}
  PROVE  Complete
  <1>1. \A r \in Rows : UnitOf[r] \in PlannedUnits /\ UnitOf[r] \in Units /\ r \in RowsOf(UnitOf[r])
    BY LayoutAssumption DEF PlannedUnits, RowsOf
  <1>2. \A u \in PlannedUnits :
          u \in Units /\ pod[u] = "reported" /\ u \in Reported /\ PathOf[u] \in registered
    BY PlanType DEF VerdictInv, ReportsAreKept, AllPodsReported, Reported
  <1>3. \A r \in Rows : obs[r] >= 1 /\ PathOf[UnitOf[r]] \in registered
    BY <1>1, <1>2 DEF VerdictInv, RetryInv, WritersHaveLanded, Landed
  <1>4. SourceScope = Rows
    BY <1>1, <1>2 DEF SourceScope
  <1>5. Cardinality(Rows) = HiveCount \/ Cardinality(Rows) = 0
    BY <1>4, VerdictSteps DEF Verdict
  <1>6. CASE Cardinality(Rows) = HiveCount
    BY <1>3, <1>6, EqualCountsMeanOnce DEF HiveCount, Complete, VerdictInv, RetryInv, TypeOK
  <1>7. CASE Cardinality(Rows) = 0
    BY <1>7, ZeroCountMeansNoRows DEF Complete
  <1> QED BY <1>5, <1>6, <1>7

\* Either way a verdict is honest: one silent fault alone shows in the counts.
LEMMA VerdictIsMaskedOrTrue ==
  ASSUME FanOutInv, VerdictInv, Next, step = "verify", status' = "success"
  PROVE  Complete \/ Masked
  BY VerdictOverOnePodEach, VerdictOverRetries DEF Masked

\* With one pod per unit, after one prepare, a success that reconcile records over
\* every pod's result means that every row is in the table once and visible, whatever
\* DataX dropped, beeline failed to register, the count query failed to return or OBS
\* did not delete, unless rows prepare left over make up for rows withheld since.
THEOREM HonestVerdict ==
  ASSUME OnePodEach, ReadsAllResults
  PROVE  Spec => VerdictIsHonest
  <1>1. Init => FanOutInv /\ VerdictInv
    BY InitFanOutInv, InitVerdictInv
  <1>2. FanOutInv /\ VerdictInv /\ [Next]_vars => FanOutInv' /\ VerdictInv'
    BY NextFanOutInv, NextVerdictInv
  <1>3. FanOutInv /\ VerdictInv /\ [Next]_vars
          => [step = "verify" /\ status' = "success" => Complete \/ Masked]_vars
    BY VerdictIsMaskedOrTrue
  <1> QED BY <1>1, <1>2, <1>3, PTL DEF Spec, VerdictIsHonest

\* Where the tools tell what they did nothing is withheld, and no success is masked.
LEMMA NothingIsMasked ==
  ASSUME TruthfulTools, TypeOK PROVE withheld = {} /\ ~Masked
  BY DEF TruthfulTools, TypeOK, SilentFaults, Masked

\* A success is honest although pods were retried and rows may be there twice, with
\* prepare or without it, and whatever OBS did not delete: every row is there, so that
\* a duplicate shows in the count.
THEOREM HonestVerdictOverRetries ==
  ASSUME ReadsAllResults, TruthfulTools
  PROVE  Spec => VerdictIsHonest
  <1>1. Init => VerdictInv
    BY InitVerdictInv
  <1>2. VerdictInv /\ [Next]_vars => VerdictInv'
    BY NextVerdictInv
  <1>3. VerdictInv /\ [Next]_vars
          => [step = "verify" /\ status' = "success" => Complete \/ Masked]_vars
    BY VerdictOverRetries, NothingIsMasked DEF VerdictInv, RetryInv
  <1> QED BY <1>1, <1>2, <1>3, PTL DEF Spec, VerdictIsHonest

----------------------------------------------------------------------------
(* The workflow implements BackupPromise: it opens the table with its       *)
(* start, works on it, and vouches for it with an honest verdict.           *)

\* Initially nothing is promised.
LEMMA InitPromise == Init => PromiseInv /\ Promise!Init
  BY DEF Init, NoCopies, PromiseInv, Vouched, Promise!Init, ShownByHive

\* A step with an honest verdict, if it has one, is a step of the promise.
LEMMA StepKeepsPromise ==
  ASSUME TypeOK, TypeOK', PromiseInv, [Next]_vars,
         Next /\ step = "verify" /\ status' = "success" => Complete \/ Masked
  PROVE  PromiseInv' /\ [Promise!Next]_<<ShownByHive, Vouched>>
  <1>t. ShownByHive' \in [Rows -> 0..2] /\ Vouched \in BOOLEAN /\ Vouched' \in BOOLEAN
    BY DEF TypeOK, CopyCounts, ShownByHive, Vouched
  <1>1. CASE UNCHANGED <<obs, registered, step, status, history>>
    BY <1>1 DEF PromiseInv, Vouched, Masked, Complete, ShownByHive
  <1>2. ASSUME step # "done", step' # "done", status' = status
        PROVE  PromiseInv' /\ [Promise!Next]_<<ShownByHive, Vouched>>
    <2>1. ~Vouched /\ ~Vouched' /\ PromiseInv'
      BY <1>2 DEF PromiseInv, Vouched
    <2> QED BY <2>1, <1>t DEF Promise!Next, Promise!Rework
  <1>3. ASSUME UNCHANGED <<obs, registered>>, Vouched' => Complete,
               step' = "done" \/ status' = "none"
        PROVE  PromiseInv' /\ [Promise!Next]_<<ShownByHive, Vouched>>
    <2>1. ShownByHive' = ShownByHive
      BY <1>3 DEF ShownByHive
    <2>2. PromiseInv'
      BY <1>3 DEF PromiseInv, Complete
    <2>3. CASE Vouched'
      <3>1. \A r \in Rows : ShownByHive[r] = 1
        BY <1>3, <2>3 DEF Complete, ShownByHive
      <3> QED BY <2>1, <2>2, <2>3, <3>1, <1>t DEF Promise!Next, Promise!Vouch
    <2>4. CASE ~Vouched'
      BY <2>1, <2>2, <2>4, <1>t DEF Promise!Next, Promise!Reopen
    <2> QED BY <2>3, <2>4
  <1>4. CASE UNCHANGED vars \/ Finished
    BY <1>1, <1>4 DEF Finished, vars
  <1>5. CASE StartWorkflow
    BY <1>3, <1>5 DEF StartWorkflow, Begin, Vouched
  <1>6. CASE NoVerdict
    BY <1>3, <1>6 DEF NoVerdict, PromiseInv, Vouched
  <1>7. CASE Verify \/ VerifyBlind
    <2>1. UNCHANGED <<obs, registered, history>> /\ step = "verify" /\ step' = "done"
      BY <1>7 DEF Verify, VerifyBlind
    <2>2. Next
      BY <1>7 DEF Next, Work, Failure
    <2>3. Vouched' => Complete
      BY <2>1, <2>2 DEF Vouched, Masked
    <2> QED BY <1>3, <2>1, <2>3
  <1>8. ASSUME NEW p, NEW K,
               \/ ClearPath(p) \/ Register(p) \/ RegisterFails(p)
               \/ ClearPathLeavesRows(p, K) \/ PrepareDies(p, K)
        PROVE  PromiseInv' /\ [Promise!Next]_<<ShownByHive, Vouched>>
    BY <1>2, <1>8 DEF ClearPath, Register, RegisterFails, ClearPathLeavesRows, PrepareDies
  <1>9. CASE FanOut \/ Reconcile \/ StartVerify
    BY <1>2, <1>9 DEF FanOut, Reconcile, StartVerify
  <1>10. ASSUME NEW u, NEW S, NEW torn,
                \/ PodStep(u) \/ DieReporting(u, torn)
                \/ WriteDropsRows(u, S) \/ DieBeforeWritten(u, S)
         PROVE  PromiseInv' /\ [Promise!Next]_<<ShownByHive, Vouched>>
    BY <1>2, <1>10 DEF PodStep, Export, Write, WriteRefused, WriteResult, DieReporting,
       WriteDropsRows, DieBeforeWritten, Running
  <1> QED
    BY <1>4, <1>5, <1>6, <1>7, <1>8, <1>9, <1>10 DEF Next, Work, Failure

\* From a success until the next workflow starts the table is complete and nobody
\* touches it, with one pod per unit, whatever DataX or add_partition keep back or OBS
\* does not delete, unless the one masks the other.
THEOREM Implementation ==
  ASSUME OnePodEach, ReadsAllResults
  PROVE  Spec => KeepsPromise
  <1>1. Init => FanOutInv /\ VerdictInv
    BY InitFanOutInv, InitVerdictInv
  <1>2. FanOutInv /\ VerdictInv /\ [Next]_vars => FanOutInv' /\ VerdictInv'
    BY NextFanOutInv, NextVerdictInv
  <1>3. FanOutInv /\ VerdictInv /\ FanOutInv' /\ PromiseInv /\ [Next]_vars
          => PromiseInv' /\ [Promise!Next]_<<ShownByHive, Vouched>>
    BY StepKeepsPromise, VerdictIsMaskedOrTrue DEF FanOutInv, PodsAppendOnce
  <1> QED BY InitPromise, <1>1, <1>2, <1>3, PTL DEF Spec, KeepsPromise, Promise!Spec

\* The same with any retries, prepared or not, and no success masked, whatever OBS does
\* not delete, if the tools tell what they did.
THEOREM ImplementationOverRetries ==
  ASSUME ReadsAllResults, TruthfulTools
  PROVE  Spec => KeepsPromise
  <1>1. VerdictInv /\ [Next]_vars => VerdictInv'
    BY NextVerdictInv
  <1>2. VerdictInv /\ VerdictInv' /\ PromiseInv /\ [Next]_vars
          => PromiseInv' /\ [Promise!Next]_<<ShownByHive, Vouched>>
    BY StepKeepsPromise, VerdictOverRetries, NothingIsMasked DEF VerdictInv, RetryInv
  <1> QED BY InitPromise, InitVerdictInv, <1>1, <1>2, PTL DEF Spec, KeepsPromise, Promise!Spec

----------------------------------------------------------------------------
(* A workflow without failures succeeds *)

\* What CleanInv adds, for the states in which nothing has failed.
CleanSoFar ==
  /\ WritersHaveLanded /\ surplus = {} /\ withheld = {}
  /\ \A u \in Units : pod[u] # "failed" /\ results[u] # "torn"
  /\ step # "done" => \A u \in PlannedUnits :
       PathOf[u] \in made \/ (step = "prepare" /\ PathOf[u] \in paths)
  /\ step \in {"register", "verify"} =>
       \A u \in PlannedUnits :
         PathOf[u] \in registered \/ (step = "register" /\ PathOf[u] \in paths)
  /\ CleanRunSucceeds

\* The verdict over a table that shows each row once is a success.
LEMMA CompleteMeansSuccess ==
  ASSUME FanOutInv, CleanSoFar, step = "verify"
  PROVE  Cardinality(SourceScope) = HiveCount
  <1>1. \A r \in Rows : UnitOf[r] \in PlannedUnits
    BY LayoutAssumption DEF PlannedUnits
  <1>2. \A u \in PlannedUnits : u \in Units /\ pod[u] = "reported"
    BY PlanType DEF FanOutInv, PodsAppendOnce, ReportsAreKept, AllPodsReported
  <1>3. \A r \in Rows : obs[r] >= 1
    <2> SUFFICES ASSUME NEW r \in Rows PROVE obs[r] >= 1
      OBVIOUS
    <2>1. Landed(UnitOf[r]) /\ r \in RowsOf(UnitOf[r])
      BY <1>1, <1>2 DEF CleanSoFar, WritersHaveLanded, RowsOf
    <2> QED
      BY <2>1 DEF Landed
  <1>4. \A r \in Rows : obs[r] = 1
    <2>1. \A r \in Rows : obs[r] \in 0..2 /\ obs[r] # 2
      BY DEF FanOutInv, PodsAppendOnce, TypeOK, CopyCounts, OnlySurplusLandsTwice, CleanSoFar
    <2> QED
      BY <1>3, <2>1
  <1>5. \A r \in Rows : PathOf[UnitOf[r]] \in registered
    BY <1>1 DEF CleanSoFar
  <1> QED
    BY <1>4, <1>5, CompleteMeansEqualCounts, ScopeIsEverything DEF HiveCount

\* Every step that is not a failure keeps CleanSoFar.
LEMMA NextKeepsClean ==
  ASSUME OnePodEach, ~OneResultFile, PlannedUnits # {}, FanOutInv, PodsWaitForPrepare,
         CleanSoFar, StartWorkflow \/ Finished \/ Work \/ UNCHANGED vars, faults = 0
  PROVE  CleanSoFar'
  <1>t. TypeOK /\ PlannedUnits \subseteq Units /\ WritersHaveLanded'
    <2>1. TypeOK /\ PlannedUnits \subseteq Units /\ WritersHaveLanded
      BY PlanType DEF FanOutInv, PodsAppendOnce, CleanSoFar
    <2>2. CASE UNCHANGED vars
      BY <2>1, <2>2 DEF vars, WritersHaveLanded, Landed
    <2>3. CASE ~UNCHANGED vars
      BY <2>1, <2>3, NextKeepsLanded DEF Next
    <2> QED
      BY <2>1, <2>2, <2>3
  <1> USE <1>t DEF CleanSoFar, CleanRunSucceeds
  <1>1. CASE UNCHANGED vars \/ Finished
    BY <1>1 DEF Finished, vars
  <1>2. CASE StartWorkflow
    <2>1. \A u \in Units : pod'[u] = "waiting"
      BY <1>2 DEF StartWorkflow, Begin
    <2>2. /\ step' = "prepare" /\ paths' = PathsToClear /\ UNCHANGED <<results, surplus>>
          /\ withheld' = {}
      BY <1>2 DEF StartWorkflow, Begin, OnePodEach
    <2> QED
      BY <2>1, <2>2 DEF PathsToClear
  <1>3. ASSUME NEW p \in paths, ClearPath(p) PROVE CleanSoFar'
    <2>1. surplus' = {}
      BY <1>3 DEF ClearPath, Clear
    <2> QED
      BY <1>3, <2>1 DEF ClearPath
  <1>4. CASE FanOut
    BY <1>4 DEF FanOut
  <1>5. ASSUME NEW u \in Units, Export(u) \/ Write(u) PROVE CleanSoFar'
    <2>1. \A w \in Units : pod'[w] = pod[w] \/ pod'[w] \in {"exported", "written"}
      BY <1>5 DEF Export, Write, TypeOK
    <2>2. step = "fanout" /\ UNCHANGED <<step, made, results, history>>
      BY <1>5 DEF Export, Write, Running
    <2> QED
      BY <2>1, <2>2
  <1>6. ASSUME NEW u \in Units, WriteResult(u) PROVE CleanSoFar'
    <2>1. \A w \in Units : /\ pod'[w] = pod[w] \/ pod'[w] = "reported"
                           /\ results'[w] = results[w] \/ results'[w] = "whole"
      BY <1>6 DEF WriteResult, SaveResult, TypeOK
    <2>2. step = "fanout" /\ UNCHANGED <<step, made, history>>
      BY <1>6 DEF WriteResult, Running
    <2> QED
      BY <2>1, <2>2
  <1>7. ASSUME NEW u \in Units PROVE ~WriteRefused(u)
    BY <1>7 DEF WriteRefused, Running
  <1>8. CASE Reconcile
    <2>1. AllPodsReported
      BY <1>8 DEF Reconcile, MayReconcile, PodsEnded, AllPodsReported
    <2>2. \A u \in PlannedUnits : u \in Reported
      BY <2>1 DEF FanOutInv, PodsAppendOnce, ReportsAreKept, AllPodsReported, Reported
    <2>3. \A u \in PlannedUnits : PathOf[u] \in paths'
      BY <1>8, <2>2 DEF Reconcile
    <2> QED
      BY <1>8, <2>3 DEF Reconcile
  <1>9. ~NoVerdict
    <2> SUFFICES ASSUME NoVerdict PROVE FALSE
      OBVIOUS
    <2>1. \A u \in PlannedUnits : pod[u] = "reported"
      BY DEF NoVerdict, PodsEnded
    <2>2. Reported # {}
      BY <2>1 DEF FanOutInv, PodsAppendOnce, ReportsAreKept, Reported
    <2> QED
      BY <2>1, <2>2 DEF NoVerdict, AllPodsReported, Reported
  <1>10. ASSUME NEW p \in paths, Register(p) PROVE CleanSoFar'
    BY <1>10 DEF Register
  <1>11. CASE StartVerify
    BY <1>11 DEF StartVerify
  <1>12. CASE Verify
    <2>1. status' = "success"
      BY <1>12, CompleteMeansSuccess DEF Verify, Verdict
    <2> QED
      BY <1>12, <2>1 DEF Verify
  <1> QED
    BY <1>1, <1>2, <1>3, <1>4, <1>5, <1>6, <1>7, <1>8, <1>9, <1>10, <1>11, <1>12
    DEF Work, PodStep

\* A workflow in which nothing fails succeeds, whatever the plan, if it has a unit, and
\* whether or not reconcile would run after a failure.
THEOREM CleanRunsSucceed ==
  ASSUME OnePodEach, ~OneResultFile, PlannedUnits # {}
  PROVE  Spec => []CleanRunSucceeds
  <1>1. Init => CleanInv
    BY InitFanOutInv, InitLanded DEF CleanInv, FanOutInv, Init, CleanRunSucceeds
  <1>2. CleanInv /\ [Next]_vars => CleanInv'
    <2> SUFFICES ASSUME CleanInv, [Next]_vars PROVE CleanInv'
      OBVIOUS
    <2>1. TypeOK /\ PodsAppendOnce' /\ PodsWaitForPrepare
      BY NextAppendsOnce DEF CleanInv, PodsAppendOnce
    <2>2. PodsWaitForPrepare'
      BY <2>1 DEF PodsWaitForPrepare, Next, Finished, vars, StartWorkflow, Begin, Work, Failure,
         ClearPath, Register, FanOut, PodStep, Export, Write, WriteRefused, WriteResult,
         Reconcile, NoVerdict, StartVerify, Verify, WriteDropsRows, DieBeforeWritten,
         DieReporting, RegisterFails, VerifyBlind, ClearPathLeavesRows, PrepareDies, Running
    <2>3. faults = 0 => CleanSoFar
      BY DEF CleanInv, CleanSoFar
    <2>4. CASE StartWorkflow \/ Finished \/ Work \/ UNCHANGED vars
      <3>1. faults' = faults
        BY <2>4 DEF StartWorkflow, Finished, Work, vars, ClearPath, Register, FanOut, PodStep,
           Export, Write, WriteRefused, WriteResult, Reconcile, NoVerdict, StartVerify, Verify
      <3>2. faults' = 0 => CleanSoFar'
        BY <2>1, <2>3, <2>4, <3>1, NextKeepsClean DEF CleanInv, FanOutInv
      <3>3. faults' = 0 => ReportsAreKept'
        <4> SUFFICES ASSUME faults = 0 PROVE ReportsAreKept'
          BY <3>1
        <4>1. MayReconcile => AllPodsReported
          BY <2>3, PlanType DEF MayReconcile, PodsEnded, AllPodsReported, CleanSoFar
        <4>2. [Next]_vars /\ ReportsAreKept
          BY DEF CleanInv
        <4> QED
          BY <2>1, <4>1, <4>2, NextReportsAreKept
      <3> QED
        BY <2>1, <2>2, <3>2, <3>3 DEF CleanInv, CleanSoFar
    <2>5. CASE Failure
      <3>1. faults' # 0
        BY <2>1, <2>5 DEF Failure, WriteDropsRows, DieBeforeWritten, DieReporting,
           RegisterFails, VerifyBlind, ClearPathLeavesRows, PrepareDies, Fault, TypeOK
      <3> QED
        BY <2>1, <2>2, <3>1 DEF CleanInv
    <2> QED
      BY <2>4, <2>5 DEF Next
  <1>3. CleanInv => CleanRunSucceeds
    BY DEF CleanInv, CleanRunSucceeds
  <1> QED BY <1>1, <1>2, <1>3, PTL DEF Spec
----------------------------------------------------------------------------
(* No workflow goes on for ever: pods move on, and each retry is one less.   *)

\* What prepare clears and reconcile registers is finitely many paths.
FinitePaths == TypeOK /\ IsFiniteSet(paths)

\* Every step keeps the paths finitely many.
LEMMA NextFinitePaths == FinitePaths /\ [Next]_vars => FinitePaths'
  <1> SUFFICES ASSUME FinitePaths, [Next]_vars PROVE FinitePaths'
    OBVIOUS
  <1>t. TypeOK /\ TypeOK' /\ IsFiniteSet(paths)
    BY NextTypeOK DEF FinitePaths
  <1>1. CASE paths' = paths
    BY <1>1, <1>t DEF FinitePaths
  <1>2. ASSUME NEW p \in paths, paths' = paths \ {p} PROVE FinitePaths'
    BY <1>2, <1>t, OneLess DEF FinitePaths
  <1>3. CASE StartWorkflow
    <2>1. IsFiniteSet(PathsToClear)
      BY PlanType, PathCount DEF PathsToClear
    <2> QED BY <1>3, <1>t, <2>1, FS_EmptySet DEF StartWorkflow, Begin, FinitePaths
  <1>4. CASE Reconcile
    <2>1. IsFiniteSet({PathOf[u] : u \in Reported})
      BY PathCount DEF Reported
    <2> QED BY <1>4, <1>t, <2>1 DEF Reconcile, FinitePaths
  <1>5. CASE UNCHANGED vars \/ Finished
    BY <1>5, <1>1 DEF Finished, vars
  <1>6. CASE Work
    BY <1>6, <1>1, <1>2, <1>4 DEF Work, PodStep, ClearPath, Register, FanOut, Export, Write,
       WriteRefused, WriteResult, NoVerdict, StartVerify, Verify
  <1>7. CASE Failure
    <2>1. ASSUME NEW p, NEW K, PrepareDies(p, K) PROVE FinitePaths'
      BY <2>1, <1>t, FS_EmptySet DEF PrepareDies, FinitePaths
    <2> QED
      BY <1>7, <1>1, <1>2, <2>1 DEF Failure, WriteDropsRows, DieBeforeWritten, DieReporting,
         RegisterFails, VerifyBlind, ClearPathLeavesRows
  <1> QED BY <1>3, <1>5, <1>6, <1>7 DEF Next

\* The pods in some states can be counted.
LEMMA PodCount == \A states, pods : PodsIn(states, pods) \in Nat
  <1> SUFFICES ASSUME NEW states, NEW pods PROVE PodsIn(states, pods) \in Nat
    OBVIOUS
  <1>1. {u \in PlannedUnits : pods[u] \in states} \in SUBSET Units
    BY PlanType
  <1> QED BY <1>1, UnitCount DEF PodsIn

\* A pod that moves leaves some states and enters others.
LEMMA PodMoves ==
  ASSUME NEW pods \in [Units -> PodStates], NEW u \in PlannedUnits, NEW s, NEW states
  PROVE  PodsIn(states, [pods EXCEPT ![u] = s]) = PodsIn(states, pods)
           + (IF s \in states THEN 1 ELSE 0) - (IF pods[u] \in states THEN 1 ELSE 0)
  <1> DEFINE moved == [pods EXCEPT ![u] = s]
             S == {w \in PlannedUnits : pods[w] \in states}
             T == {w \in PlannedUnits : moved[w] \in states}
  <1>1. u \in Units /\ moved[u] = s /\ \A w \in PlannedUnits \ {u} : moved[w] = pods[w]
    BY PlanType
  <1>2. u \in S <=> pods[u] \in states
    OBVIOUS
  <1>3. T = IF s \in states THEN S \cup {u} ELSE S \ {u}
    <2> HIDE DEF moved
    <2> QED BY <1>1
  <1>4. S \in SUBSET Units
    BY PlanType
  <1>5. PodsIn(states, pods) = Cardinality(S) /\ PodsIn(states, moved) = Cardinality(T)
    BY DEF PodsIn
  <1> HIDE DEF S, T
  <1>6. IsFiniteSet(S) /\ Cardinality(S) \in Nat
    BY <1>4, UnitCount
  <1>7. /\ Cardinality(S \cup {u}) = IF u \in S THEN Cardinality(S) ELSE Cardinality(S) + 1
        /\ Cardinality(S \ {u}) = IF u \in S THEN Cardinality(S) - 1 ELSE Cardinality(S)
    BY <1>6, FS_AddElement, FS_RemoveElement
  <1> HIDE DEF moved
  <1>8. PodsIn(states, moved) = PodsIn(states, pods)
          + (IF s \in states THEN 1 ELSE 0) - (IF pods[u] \in states THEN 1 ELSE 0)
    BY <1>2, <1>3, <1>5, <1>6, <1>7
  <1> QED BY <1>8 DEF moved

\* Work is counted in natural numbers.
LEMMA PodWorkType ==
  ASSUME TypeOK, TypeOK' PROVE PodWork \in Nat /\ PodWork' \in Nat
  <1>1. retries \in Nat /\ retries' \in Nat
    BY DEF TypeOK
  <1> QED BY <1>1, PodCount DEF PodWork

\* the steps a pod in state s has before it
Worth(s) == CASE s = "waiting" -> 3 [] s = "exported" -> 2 [] s = "written" -> 1 [] OTHER -> 0

\* How the work changes when a pod moves.
LEMMA PodWorkMoves ==
  ASSUME TypeOK, retries' \in Nat, NEW u \in PlannedUnits, NEW s, pod' = [pod EXCEPT ![u] = s]
  PROVE  PodWork' = PodWork + Worth(s) - Worth(pod[u]) + 3 * retries' - 3 * retries
  <1>1. retries \in Nat /\ pod \in [Units -> PodStates]
    BY DEF TypeOK
  <1>2. \A states : PodsIn(states, pod') = PodsIn(states, pod)
           + (IF s \in states THEN 1 ELSE 0) - (IF pod[u] \in states THEN 1 ELSE 0)
    <2>1. \A states : PodsIn(states, [pod EXCEPT ![u] = s]) = PodsIn(states, pod)
             + (IF s \in states THEN 1 ELSE 0) - (IF pod[u] \in states THEN 1 ELSE 0)
      BY <1>1, PodMoves
    <2> QED BY <2>1, Zenon
  <1>3. PodsIn({"waiting"}, pod') = PodsIn({"waiting"}, pod)
          + (IF s = "waiting" THEN 1 ELSE 0) - (IF pod[u] = "waiting" THEN 1 ELSE 0)
    BY <1>2
  <1>4. PodsIn({"waiting", "exported"}, pod') = PodsIn({"waiting", "exported"}, pod)
          + (IF s \in {"waiting", "exported"} THEN 1 ELSE 0)
          - (IF pod[u] \in {"waiting", "exported"} THEN 1 ELSE 0)
    BY <1>2
  <1>5. PodsIn({"waiting", "exported", "written"}, pod')
          = PodsIn({"waiting", "exported", "written"}, pod)
          + (IF s \in {"waiting", "exported", "written"} THEN 1 ELSE 0)
          - (IF pod[u] \in {"waiting", "exported", "written"} THEN 1 ELSE 0)
    BY <1>2
  <1>6. /\ PodsIn({"waiting"}, pod) \in Nat /\ PodsIn({"waiting", "exported"}, pod) \in Nat
        /\ PodsIn({"waiting", "exported", "written"}, pod) \in Nat
    BY PodCount
  <1> QED BY <1>1, <1>3, <1>4, <1>5, <1>6 DEF PodWork, Worth

\* Whatever a workflow does, fault or not, brings its end closer.
LEMMA EveryStepCounts ==
  ASSUME FinitePaths, Next, step # "done"
  PROVE  StepsLeft' < StepsLeft
  <1> DEFINE n == Cardinality(Units)
             m == Cardinality(paths)
  <1>t. TypeOK /\ TypeOK' /\ IsFiniteSet(paths)
    BY NextTypeOK DEF FinitePaths
  <1>n. n \in Nat /\ m \in Nat /\ PodWork \in Nat /\ PodWork' \in Nat
        /\ retries \in Nat /\ retries' \in Nat
    BY <1>t, UnitCount, FS_CardinalityType, PodWorkType DEF TypeOK
  <1>1. ASSUME NEW p \in paths, NEW K,
               ClearPath(p) \/ ClearPathLeavesRows(p, K) \/ Register(p) \/ RegisterFails(p)
        PROVE  StepsLeft' < StepsLeft
    <2>1. /\ step \in {"prepare", "register"} /\ step' = step /\ paths' = paths \ {p}
          /\ step = "prepare" => UNCHANGED <<pod, retries>>
      BY <1>1 DEF ClearPath, ClearPathLeavesRows, Register, RegisterFails
    <2>2. Cardinality(paths') \in Nat /\ Cardinality(paths') = m - 1
      BY <2>1, <1>t, OneLess
    <2>3. step = "prepare" => PodWork' = PodWork
      BY <2>1 DEF PodWork
    <2> QED BY <2>1, <2>2, <2>3, <1>n DEF StepsLeft
  <1>2. CASE FanOut
    <2>1. step = "prepare" /\ step' = "fanout" /\ PodWork' = PodWork
      BY <1>2 DEF FanOut, PodWork
    <2> QED BY <2>1, <1>n DEF StepsLeft
  <1>3. ASSUME step = "fanout", step' = "fanout", PodWork' < PodWork
        PROVE  StepsLeft' < StepsLeft
    BY <1>3, <1>n DEF StepsLeft
  <1>4. ASSUME NEW u, NEW S, Export(u) \/ Write(u) \/ WriteDropsRows(u, S) \/ WriteResult(u)
        PROVE  StepsLeft' < StepsLeft
    <2>1. /\ step = "fanout" /\ step' = "fanout" /\ retries' = retries /\ u \in PlannedUnits
          /\ \/ pod[u] = "waiting" /\ pod' = [pod EXCEPT ![u] = "exported"]
             \/ pod[u] = "exported" /\ pod' = [pod EXCEPT ![u] = "written"]
             \/ pod[u] = "written" /\ pod' = [pod EXCEPT ![u] = "reported"]
      BY <1>4 DEF Export, Write, WriteDropsRows, WriteResult, Running
    <2>2. ASSUME NEW s, pod' = [pod EXCEPT ![u] = s], Worth(s) \in Nat, Worth(pod[u]) \in Nat,
                 Worth(s) < Worth(pod[u])
          PROVE  PodWork' < PodWork
      <3>1. PodWork' = PodWork + Worth(s) - Worth(pod[u]) + 3 * retries' - 3 * retries
        BY <2>1, <2>2, <1>t, <1>n, PodWorkMoves
      <3> QED BY <2>1, <2>2, <3>1, <1>n
    <2>3. PodWork' < PodWork
      BY <2>1, <2>2 DEF Worth
    <2> QED BY <2>1, <2>3, <1>3
  <1>5. ASSUME NEW u, NEW S, NEW torn,
               WriteRefused(u) \/ DieBeforeWritten(u, S) \/ DieReporting(u, torn)
        PROVE  StepsLeft' < StepsLeft
    <2>1. /\ step = "fanout" /\ step' = "fanout" /\ u \in PlannedUnits /\ Fail(u)
          /\ pod[u] \in {"waiting", "exported", "written"}
      BY <1>5 DEF WriteRefused, DieBeforeWritten, DieReporting, Running
    <2>2. CASE retries > 0
      <3>1. retries' = retries - 1 /\ pod' = [pod EXCEPT ![u] = "waiting"]
        BY <2>1, <2>2 DEF Fail
      <3>2. PodWork' = PodWork + Worth("waiting") - Worth(pod[u]) + 3 * retries' - 3 * retries
        BY <2>1, <3>1, <1>t, <1>n, PodWorkMoves
      <3>3. PodWork' < PodWork
        BY <2>1, <2>2, <3>1, <3>2, <1>n DEF Worth
      <3> QED BY <2>1, <3>3, <1>3
    <2>3. CASE ~(retries > 0)
      <3>1. retries' = retries /\ pod' = [pod EXCEPT ![u] = "failed"]
        BY <2>1, <2>3 DEF Fail
      <3>2. PodWork' = PodWork + Worth("failed") - Worth(pod[u]) + 3 * retries' - 3 * retries
        BY <2>1, <3>1, <1>t, <1>n, PodWorkMoves
      <3>3. PodWork' < PodWork
        BY <2>1, <2>3, <3>1, <3>2, <1>n DEF Worth
      <3> QED BY <2>1, <3>3, <1>3
    <2> QED BY <2>2, <2>3
  <1>6. CASE Reconcile
    <2>1. step = "fanout" /\ step' = "register" /\ paths' = {PathOf[u] : u \in Reported}
      BY <1>6 DEF Reconcile
    <2>2. Cardinality(paths') \in Nat /\ Cardinality(paths') <= n
      BY <2>1, PathCount DEF Reported
    <2> QED BY <2>1, <2>2, <1>n DEF StepsLeft
  <1>7. CASE NoVerdict \/ StartVerify \/ Verify \/ VerifyBlind
    BY <1>7, <1>n DEF NoVerdict, StartVerify, Verify, VerifyBlind, StepsLeft
  <1>9. ASSUME NEW p \in paths, NEW K, PrepareDies(p, K) PROVE StepsLeft' < StepsLeft
    <2>1. step = "prepare" /\ step' = "fanout" /\ retries' = retries
      BY <1>9 DEF PrepareDies
    <2>2. \A states : "failed" \notin states => PodsIn(states, pod') = 0
      <3> SUFFICES ASSUME NEW states, "failed" \notin states PROVE PodsIn(states, pod') = 0
        OBVIOUS
      <3>1. {u \in PlannedUnits : pod'[u] \in states} = {}
        BY <1>9, PlanType DEF PrepareDies
      <3> QED BY <3>1, FS_EmptySet DEF PodsIn
    <2>3. PodWork' = 3 * retries'
      <3>1. /\ PodsIn({"waiting"}, pod') = 0 /\ PodsIn({"waiting", "exported"}, pod') = 0
            /\ PodsIn({"waiting", "exported", "written"}, pod') = 0
        BY <2>2
      <3> QED BY <3>1, <1>n DEF PodWork
    <2>4. 3 * retries <= PodWork
      BY <1>n, PodCount DEF PodWork
    <2> QED BY <2>1, <2>3, <2>4, <1>n DEF StepsLeft
  <1>8. ~StartWorkflow /\ ~Finished
    BY DEF StartWorkflow, Finished
  <1> QED
    BY <1>1, <1>2, <1>4, <1>5, <1>6, <1>7, <1>8, <1>9 DEF Next, Work, PodStep, Failure

\* A workflow under way makes at most StepsLeft steps, whatever its pods do.
THEOREM WorkflowsEndInTime == Spec => WorkflowsAreBounded
  <1>1. Init => FinitePaths
    BY InitTypeOK, FS_EmptySet DEF Init, FinitePaths
  <1>2. FinitePaths /\ [Next]_vars => FinitePaths'
    BY NextFinitePaths
  <1>3. FinitePaths /\ [Next]_vars => [step # "done" => StepsLeft' < StepsLeft]_vars
    BY EveryStepCounts
  <1> QED BY <1>1, <1>2, <1>3, PTL DEF Spec, WorkflowsAreBounded
=============================================================================
