---------------------------- MODULE RetentionProofs ----------------------------
(***************************************************************************)
(* Proofs about Retention for any number of tables, any retention and any  *)
(* calendar, with backups, crashes and failures of every kind.             *)
(***************************************************************************)
EXTENDS RetentionProps, BeelineProofs

----------------------------------------------------------------------------
(* Parts of the state *)

\* The command has reached a table, and its retention is a number.
LEMMA TableType ==
  ASSUME TypeOK
  PROVE  /\ table \in Tables /\ RetentionDays[table] \in Nat /\ cutoff \in Int /\ today \in Nat
         /\ \A t \in Tables : RetentionDays[t] \in Nat
  BY RetentionAssumption DEF TypeOK

\* The objects and the entry of one partition change.
LEMMA PartitionTypes ==
  ASSUME TypeOK, NEW t \in Tables, NEW d \in Dates
  PROVE  /\ \A state \in {"none", "some", "all"} :
              [obs EXCEPT ![t][d] = state] \in [Tables -> [Dates -> {"none", "some", "all"}]]
         /\ \A b \in BOOLEAN : [part EXCEPT ![t][d] = b] \in [Tables -> [Dates -> BOOLEAN]]
  <1>1. \A state \in {"none", "some", "all"} :
          [obs EXCEPT ![t][d] = state] \in [Tables -> [Dates -> {"none", "some", "all"}]]
    BY DEF TypeOK
  <1>2. ASSUME NEW b \in BOOLEAN
        PROVE  [part EXCEPT ![t][d] = b] \in [Tables -> [Dates -> BOOLEAN]]
    BY Zenon DEF TypeOK
  <1> QED
    BY <1>1, <1>2

\* What the call's own steps leave alone: whether there is one, and its child.
LEMMA BeelineStepFrame ==
  ASSUME BeelineInv, BeelineStep
  PROVE  child' = child /\ (caller' = "idle" <=> caller = "idle")
  <1>1. CASE \E s \in Streams : PrintLine(s) \/ ReadLine(s) \/ ReadEof(s)
    BY <1>1 DEF PrintLine, ReadLine, ReadEof
  <1>2. CASE TakeLine \/ PollTimesOut \/ EndPolling \/ WaitReturns \/ WaitTimesOut
    BY <1>2 DEF TakeLine, PollTimesOut, EndPolling, WaitReturns, WaitTimesOut, Polling
  <1> QED
    BY <1>1, <1>2 DEF BeelineStep

----------------------------------------------------------------------------
(* The initial state and the world *)

\* The initial state satisfies the invariant.
LEMMA InitInv == Init => RetentionInv
  <1> SUFFICES ASSUME Init PROVE TypeOK /\ BeelineInv /\ CommandInv
    BY DEF RetentionInv
  <1>1. BeelineInv
    BY InitKeeps DEF Init
  <1>2. TypeOK
    <2>1. part \in [Tables -> [Dates -> BOOLEAN]] /\ hadErrors \in BOOLEAN /\ dry \in BOOLEAN
      BY Zenon DEF Init
    <2> QED
      BY <1>1, <2>1, RetentionAssumption DEF Init, TypeOK, BeelineInv, Steps, Tables
  <1>3. CommandInv
    BY DEF Init, BeelineInit, CommandInv, ExpiryHolds, DropHolds, DanglingIsReported
  <1> QED
    BY <1>1, <1>2, <1>3

\* Midnight lets partitions expire, and none become young again.
LEMMA MidnightKeeps == RetentionInv /\ Midnight => RetentionInv'
  <1> SUFFICES ASSUME TypeOK, BeelineInv, CommandInv, Midnight
               PROVE  TypeOK' /\ BeelineInv' /\ CommandInv'
    BY DEF RetentionInv
  <1>1. /\ today' = today + 1
        /\ UNCHANGED <<commandVars, obs, part, reported, cut, refused, faults, beelineVars>>
    BY DEF Midnight
  <1>2. BeelineInv'
    BY <1>1, StutterKeeps
  <1>3. TypeOK'
    BY <1>1, <1>2 DEF TypeOK, BeelineInv, commandVars
  <1>4. CommandInv'
    BY <1>1, TableType DEF CommandInv, ExpiryHolds, DropHolds, DanglingIsReported, commandVars,
       beelineVars
  <1> QED
    BY <1>2, <1>3, <1>4

\* A backup makes objects whole and registers whole ones only.
LEMMA BackupKeeps ==
  ASSUME RetentionInv, NEW t \in Tables, NEW d \in Dates,
         BackupLands(t, d) \/ BackupRegisters(t, d)
  PROVE  RetentionInv'
  <1> SUFFICES TypeOK' /\ BeelineInv' /\ CommandInv'
    BY DEF RetentionInv
  <1> USE DEF RetentionInv
  <1>1. /\ MayBackUp(t, d)
        /\ UNCHANGED <<commandVars, today, reported, cut, refused, faults, beelineVars>>
    BY DEF BackupLands, BackupRegisters
  <1>2. BeelineInv'
    BY <1>1, StutterKeeps
  <1>3. \/ obs' = [obs EXCEPT ![t][d] = "all"] /\ part' = part
        \/ part' = [part EXCEPT ![t][d] = TRUE] /\ obs' = obs /\ obs[t][d] = "all"
    BY DEF BackupLands, BackupRegisters
  <1>4. TypeOK'
    <2>1. /\ [obs EXCEPT ![t][d] = "all"] \in [Tables -> [Dates -> {"none", "some", "all"}]]
          /\ [part EXCEPT ![t][d] = TRUE] \in [Tables -> [Dates -> BOOLEAN]]
      BY PartitionTypes
    <2>2. /\ obs \in [Tables -> [Dates -> {"none", "some", "all"}]]
          /\ part \in [Tables -> [Dates -> BOOLEAN]]
      BY DEF TypeOK
    <2>3. /\ obs' \in [Tables -> [Dates -> {"none", "some", "all"}]]
          /\ part' \in [Tables -> [Dates -> BOOLEAN]]
      BY <1>3, <2>1, <2>2, Zenon
    <2> QED
      BY <1>1, <1>2, <2>3 DEF TypeOK, BeelineInv, commandVars
  <1>5. /\ \A u \in Tables, e \in Dates : obs'[u][e] = obs[u][e] \/ obs'[u][e] = "all"
        /\ \A u \in Tables, e \in Dates :
             obs'[u][e] # obs[u][e] \/ part'[u][e] # part[u][e] =>
               obs'[u][e] = "all" /\ u = t /\ e = d
    <2>1. CASE obs' = [obs EXCEPT ![t][d] = "all"] /\ part' = part
      BY <2>1 DEF TypeOK
    <2>2. CASE part' = [part EXCEPT ![t][d] = TRUE] /\ obs' = obs /\ obs[t][d] = "all"
      BY <2>2 DEF TypeOK
    <2> QED
      BY <1>3, <2>1, <2>2
  <1>6. ExpiryHolds'
    BY <1>1 DEF CommandInv, ExpiryHolds, commandVars
  <1>7. DropHolds'
    <2>1. step = "drop" => table \in Tables /\ current \in Dates
      BY DEF CommandInv, ExpiryHolds, TypeOK
    <2>2. step = "drop" /\ table = t /\ current = d => Backfill
      <3>1. SUFFICES ASSUME step = "drop", table = t, current = d PROVE ~Young(t, d)
        BY <1>1 DEF MayBackUp
      <3>2. d <= cutoff /\ cutoff <= today - RetentionDays[t]
        BY <3>1 DEF CommandInv, ExpiryHolds
      <3>3. d \in Nat /\ cutoff \in Int /\ today \in Nat /\ RetentionDays[t] \in Nat
        BY TableType, RetentionAssumption
      <3> QED
        BY <3>2, <3>3 DEF Young
    <2>3. UNCHANGED <<step, table, current, refused, caller, child>>
      BY <1>1 DEF commandVars, beelineVars
    <2>4. step = "drop" <=> caller # "idle"
      BY DEF CommandInv, DropHolds
    <2>5. step = "drop" /\ child = "exited0" =>
            ~part'[table][current] \/ obs'[table][current] = "all"
      BY <1>5, <2>1 DEF CommandInv, DropHolds
    <2>6. step = "drop" /\ obs'[table][current] = "all" =>
            Backfill \/ <<table, current>> \in refused
      BY <1>5, <2>1, <2>2 DEF CommandInv, DropHolds
    <2> QED
      BY <2>3, <2>4, <2>5, <2>6 DEF DropHolds
  <1>8. DanglingIsReported'
    BY <1>1, <1>5 DEF CommandInv, DanglingIsReported, commandVars
  <1> QED
    BY <1>2, <1>4, <1>6, <1>7, <1>8 DEF CommandInv

----------------------------------------------------------------------------
(* The command, between two calls *)

\* A step of the command that deletes nothing and starts or ends no call.
LEMMA QuietStepKeeps ==
  ASSUME RetentionInv, UNCHANGED <<worldVars, beelineVars>>, faults' \in Nat,
         step # "drop", step' \in Steps \ {"drop"}, dry' \in BOOLEAN, table' \in Tables,
         cutoff' \in Int, listed' \in SUBSET Dates, current' \in Dates \cup {0},
         hadErrors' \in BOOLEAN, ExpiryHolds'
  PROVE  RetentionInv'
  <1> SUFFICES TypeOK' /\ BeelineInv' /\ CommandInv'
    BY DEF RetentionInv
  <1> USE DEF RetentionInv
  <1>1. BeelineInv'
    BY StutterKeeps
  <1>2. TypeOK'
    BY <1>1 DEF TypeOK, BeelineInv, worldVars
  <1>3. DropHolds' /\ DanglingIsReported'
    BY DEF CommandInv, DropHolds, DanglingIsReported, worldVars, beelineVars
  <1> QED
    BY <1>1, <1>2, <1>3 DEF CommandInv

\* Starting, listing and keeping, and going on to the next table.
LEMMA WalkKeeps ==
  ASSUME RetentionInv,
         \/ \E isDry \in BOOLEAN : StartCommand(isDry)
         \/ List \/ ListFails \/ NextTable \/ EndCommand
         \/ \E d \in Dates : KeepOrPretend(d) \/ BeginExpiry(d)
  PROVE  RetentionInv'
  <1> USE DEF RetentionInv
  <1>1. ASSUME NEW isDry \in BOOLEAN, StartCommand(isDry) PROVE RetentionInv'
    <2>1. ExpiryHolds'
      BY <1>1 DEF StartCommand, ExpiryHolds
    <2> QED
      BY <1>1, <2>1, QuietStepKeeps DEF StartCommand, TypeOK, Steps
  <1>2. CASE List
    <2>1. cutoff' = today - RetentionDays[table] /\ cutoff' \in Int
      BY <1>2, TableType DEF List, CutoffOf
    <2>2. ExpiryHolds'
      BY <1>2, <2>1, TableType DEF List, ExpiryHolds, worldVars
    <2>3. listed' \in SUBSET Dates
      BY <1>2 DEF List, Listed
    <2> QED
      BY <1>2, <2>1, <2>2, <2>3, QuietStepKeeps DEF List, TypeOK, Steps
  <1>3. CASE ListFails \/ EndCommand
    <2>1. /\ step' \in {"exit0", "exit1"} /\ dry' = TRUE /\ table' = 1 /\ cutoff' = 0
          /\ listed' = {} /\ current' = 0 /\ hadErrors' = FALSE /\ step # "drop"
          /\ UNCHANGED <<worldVars, beelineVars>>
      BY <1>3 DEF ListFails, EndCommand, Stop
    <2>2. faults' \in Nat
      BY <1>3 DEF ListFails, EndCommand, Fault, TypeOK
    <2>3. 1 \in Tables
      BY RetentionAssumption DEF Tables
    <2>4. ExpiryHolds'
      BY <2>1 DEF ExpiryHolds
    <2>5. /\ step' \in Steps \ {"drop"}
          /\ cutoff' \in Int /\ listed' \in SUBSET Dates /\ current' \in Dates \cup {0}
      BY <2>1 DEF Steps
    <2>6. dry' \in BOOLEAN /\ hadErrors' \in BOOLEAN
      BY <2>1, Zenon
    <2> QED
      BY <2>1, <2>2, <2>3, <2>4, <2>5, <2>6, QuietStepKeeps
  <1>4. CASE NextTable
    <2>1. table' \in Tables
      BY <1>4, RetentionAssumption DEF NextTable, TypeOK, Tables
    <2>2. ExpiryHolds'
      BY <1>4 DEF NextTable, ExpiryHolds
    <2> QED
      BY <1>4, <2>1, <2>2, QuietStepKeeps DEF NextTable, TypeOK, Steps
  <1>5. ASSUME NEW d \in Dates, KeepOrPretend(d) PROVE RetentionInv'
    <2>1. ExpiryHolds'
      BY <1>5 DEF KeepOrPretend, CommandInv, ExpiryHolds, worldVars
    <2> QED
      BY <1>5, <2>1, QuietStepKeeps DEF KeepOrPretend, TypeOK, Steps
  <1>6. ASSUME NEW d \in Dates, BeginExpiry(d) PROVE RetentionInv'
    <2>1. ExpiryHolds'
      BY <1>6 DEF BeginExpiry, MayDelete, Expired, CommandInv, ExpiryHolds, worldVars
    <2> QED
      BY <1>6, <2>1, QuietStepKeeps DEF BeginExpiry, TypeOK, Steps
  <1> QED
    BY <1>1, <1>2, <1>3, <1>4, <1>5, <1>6

----------------------------------------------------------------------------
(* The deletion and the drop *)

\* What a step does to the partition in work: its objects change, the entry stays,
\* and others are left alone.
LEMMA ObsChanges ==
  ASSUME TypeOK, current \in Dates, NEW state \in {"none", "some", "all"}, ObsBecomes(state)
  PROVE  /\ obs' \in [Tables -> [Dates -> {"none", "some", "all"}]]
         /\ obs'[table][current] = state
         /\ \A t \in Tables, d \in Dates :
              <<t, d>> # <<table, current>> => obs'[t][d] = obs[t][d]
  <1>1. obs' \in [Tables -> [Dates -> {"none", "some", "all"}]]
    BY TableType, PartitionTypes DEF ObsBecomes
  <1>2. obs' = [obs EXCEPT ![table][current] = state] /\ table \in Tables
    BY TableType DEF ObsBecomes
  <1> QED
    BY <1>1, <1>2 DEF TypeOK

\* The deletion of the objects, complete or not, starts the drop.
LEMMA DeleteKeeps ==
  ASSUME RetentionInv, DeleteObjects \/ DeleteLeavesObjects
  PROVE  RetentionInv'
  <1> SUFFICES TypeOK' /\ BeelineInv' /\ CommandInv'
    BY DEF RetentionInv
  <1> USE DEF RetentionInv
  <1>1. /\ step = "delete" /\ step' = "drop" /\ Launch
        /\ UNCHANGED <<dry, table, cutoff, listed, current, hadErrors, today, part, reported, cut>>
    BY DEF DeleteObjects, DeleteLeavesObjects
  <1>2. current \in Dates /\ table \in Tables
    BY <1>1, TableType DEF CommandInv, ExpiryHolds
  <1>3. PICK state \in {"none", "some", "all"} :
          /\ ObsBecomes(state) /\ refused \subseteq refused'
          /\ refused' \in SUBSET (Tables \X Dates) /\ faults' \in Nat
          /\ state = "all" => <<table, current>> \in refused'
    <2>1. CASE DeleteObjects
      BY <2>1 DEF DeleteObjects, TypeOK
    <2>2. CASE DeleteLeavesObjects
      <3>1. PICK state \in {"some", obs[table][current]} : ObsBecomes(state)
        BY <2>2 DEF DeleteLeavesObjects
      <3>2. state \in {"none", "some", "all"}
        BY <1>2, <3>1 DEF TypeOK
      <3>3. /\ refused' = refused \cup {<<table, current>>} /\ faults' \in Nat
        BY <2>2 DEF DeleteLeavesObjects, Fault, TypeOK
      <3>4. refused' \in SUBSET (Tables \X Dates)
        BY <1>2, <3>3 DEF TypeOK
      <3> QED
        BY <3>1, <3>2, <3>3, <3>4
    <2> QED
      BY <2>1, <2>2
  <1>4. BeelineInv'
    BY <1>1, LaunchKeeps DEF BeelineInv
  <1>5. /\ obs' \in [Tables -> [Dates -> {"none", "some", "all"}]]
        /\ obs'[table][current] = state
        /\ \A t \in Tables, d \in Dates :
             <<t, d>> # <<table, current>> => obs'[t][d] = obs[t][d]
    BY <1>2, <1>3, ObsChanges
  <1>6. TypeOK'
    BY <1>1, <1>3, <1>4, <1>5 DEF TypeOK, BeelineInv, Steps
  <1>7. ExpiryHolds'
    BY <1>1 DEF CommandInv, ExpiryHolds
  <1>8. DropHolds'
    BY <1>1, <1>3, <1>5 DEF Launch, DropHolds
  <1>9. DanglingIsReported'
    BY <1>1, <1>5 DEF CommandInv, DanglingIsReported
  <1> QED
    BY <1>4, <1>6, <1>7, <1>8, <1>9 DEF CommandInv

\* A failed deletion is reported, whatever it left.
LEMMA DeleteFailsKeeps ==
  ASSUME RetentionInv, DeleteFails PROVE RetentionInv'
  <1> SUFFICES TypeOK' /\ BeelineInv' /\ CommandInv'
    BY DEF RetentionInv
  <1> USE DEF RetentionInv
  <1>1. /\ step = "delete" /\ step' = "each" /\ hadErrors' = TRUE
        /\ reported' = reported \cup {<<table, current>>}
        /\ UNCHANGED <<dry, table, cutoff, listed, current, today, part, cut, refused, beelineVars>>
    BY DEF DeleteFails, ExpiryFails
  <1>2. current \in Dates /\ table \in Tables
    BY <1>1, TableType DEF CommandInv, ExpiryHolds
  <1>3. PICK state \in {"none", "some", "all"} : ObsBecomes(state)
    <2>1. PICK state \in {"none", "some", obs[table][current]} : ObsBecomes(state)
      BY DEF DeleteFails
    <2> QED
      BY <1>2, <2>1 DEF TypeOK
  <1>4. BeelineInv'
    BY <1>1, StutterKeeps
  <1>5. /\ obs' \in [Tables -> [Dates -> {"none", "some", "all"}]]
        /\ \A t \in Tables, d \in Dates :
             <<t, d>> # <<table, current>> => obs'[t][d] = obs[t][d]
    BY <1>2, <1>3, ObsChanges
  <1>6. TypeOK'
    <2>1. faults' \in Nat /\ reported' \in SUBSET (Tables \X Dates)
      BY <1>1, <1>2 DEF DeleteFails, Fault, TypeOK
    <2> QED
      BY <1>1, <1>4, <1>5, <2>1 DEF TypeOK, BeelineInv, Steps
  <1>7. ExpiryHolds' /\ DropHolds'
    BY <1>1 DEF CommandInv, ExpiryHolds, DropHolds, beelineVars
  <1>8. DanglingIsReported'
    BY <1>1, <1>5 DEF CommandInv, DanglingIsReported
  <1> QED
    BY <1>4, <1>6, <1>7, <1>8 DEF CommandInv

\* The child drops the entry, fails at it or hangs; the objects are what they were.
LEMMA ChildKeeps ==
  ASSUME RetentionInv, BeelineSucceeds \/ BeelineFails PROVE RetentionInv'
  <1> SUFFICES TypeOK' /\ BeelineInv' /\ CommandInv'
    BY DEF RetentionInv
  <1> USE DEF RetentionInv
  <1>1. PICK state \in Children \ {"none", "running"} :
          /\ ChildEnds(state) /\ faults' \in Nat
          /\ UNCHANGED <<commandVars, today, obs, reported, cut, refused>>
          /\ DropTakesEffect \/ (state # "exited0" /\ UNCHANGED part)
          /\ state = "hung" => child = "running"
          /\ state = "exited0" => AllPrinted
    <2>1. CASE BeelineSucceeds
      BY <2>1 DEF BeelineSucceeds, Children, TypeOK
    <2>2. CASE BeelineFails
      <3>1. PICK state \in {"exited1", "closed", "hung"} :
              ChildEnds(state) /\ faults' = faults + 1 /\ (state = "hung" => child = "running")
        BY <2>2 DEF BeelineFails, Fault
      <3>2. /\ UNCHANGED <<commandVars, today, obs, reported, cut, refused>>
            /\ DropTakesEffect \/ UNCHANGED part
        BY <2>2 DEF BeelineFails
      <3> QED
        BY <3>1, <3>2 DEF Children, TypeOK
    <2> QED
      BY <2>1, <2>2
  <1>2. BeelineInv'
    BY <1>1, ChildEndsKeeps
  <1>3. /\ child \in {"running", "closed"} /\ child' = state /\ caller' = caller
    BY <1>1 DEF ChildEnds
  <1>4. step = "drop" /\ table \in Tables /\ current \in Dates
    <2>1. caller # "idle"
      BY <1>3 DEF BeelineInv, LinesHold, CallHolds
    <2> QED
      BY <2>1, TableType DEF CommandInv, DropHolds, ExpiryHolds
  <1>5. /\ part' \in [Tables -> [Dates -> BOOLEAN]]
        /\ \A t \in Tables, d \in Dates : part'[t][d] => part[t][d]
        /\ state = "exited0" => ~part'[table][current]
    <2>1. CASE DropTakesEffect
      <3>1. part' = [part EXCEPT ![table][current] = FALSE]
        BY <2>1 DEF DropTakesEffect
      <3>2. [part EXCEPT ![table][current] = FALSE] \in [Tables -> [Dates -> BOOLEAN]]
        BY <1>4, PartitionTypes
      <3>3. part' \in [Tables -> [Dates -> BOOLEAN]]
        BY <3>1, <3>2, Zenon
      <3> QED
        BY <1>4, <3>1, <3>3 DEF TypeOK
    <2>2. CASE state # "exited0" /\ UNCHANGED part
      BY <2>2 DEF TypeOK
    <2> QED
      BY <1>1, <2>1, <2>2
  <1>6. TypeOK'
    BY <1>1, <1>2, <1>5 DEF TypeOK, BeelineInv, commandVars
  <1>7. ExpiryHolds'
    BY <1>1 DEF CommandInv, ExpiryHolds, commandVars
  <1>8. DropHolds'
    BY <1>1, <1>3, <1>5 DEF CommandInv, DropHolds, commandVars
  <1>9. DanglingIsReported'
    BY <1>1, <1>5 DEF CommandInv, DanglingIsReported, commandVars
  <1> QED
    BY <1>2, <1>6, <1>7, <1>8, <1>9 DEF CommandInv

\* The output and the caller's loop change nothing of the command.
LEMMA ProceedKeeps == RetentionInv /\ BeelineProceeds => RetentionInv'
  <1> SUFFICES ASSUME RetentionInv, BeelineProceeds
               PROVE  TypeOK' /\ BeelineInv' /\ CommandInv'
    BY DEF RetentionInv
  <1> USE DEF RetentionInv
  <1>1. BeelineStep /\ UNCHANGED <<commandVars, worldVars, faults>>
    BY DEF BeelineProceeds
  <1>2. BeelineInv'
    BY <1>1, BeelineStepKeeps
  <1>3. child' = child /\ (caller' = "idle" <=> caller = "idle")
    BY <1>1, BeelineStepFrame
  <1>4. TypeOK'
    BY <1>1, <1>2 DEF TypeOK, BeelineInv, commandVars, worldVars
  <1>5. CommandInv'
    BY <1>1, <1>3 DEF CommandInv, ExpiryHolds, DropHolds, DanglingIsReported, commandVars,
       worldVars
  <1> QED
    BY <1>2, <1>4, <1>5

\* A drop that succeeded has left no entry without data, one that failed is reported.
LEMMA DropKeeps ==
  ASSUME RetentionInv, DropSucceeds \/ DropFails PROVE RetentionInv'
  <1> SUFFICES TypeOK' /\ BeelineInv' /\ CommandInv'
    BY DEF RetentionInv
  <1> USE DEF RetentionInv
  <1>1. /\ step = "drop" /\ step' = "each" /\ (Return("ok") \/ Return("error"))
        /\ UNCHANGED <<dry, table, cutoff, listed, current, today, obs, part, cut, refused, faults>>
    BY DEF DropSucceeds, DropFails, ExpiryFails, worldVars
  <1>2. current \in Dates /\ table \in Tables
    BY <1>1, TableType DEF CommandInv, ExpiryHolds
  <1>3. BeelineInv'
    <2>1. BeelineTypes
      BY DEF BeelineInv
    <2> QED
      BY <1>1, <2>1, ReturnKeeps
  <1>4. \/ UNCHANGED <<hadErrors, reported>> /\ caller = "ok"
        \/ hadErrors' = TRUE /\ reported' = reported \cup {<<table, current>>}
    BY DEF DropSucceeds, DropFails, ExpiryFails, worldVars, Return
  <1>5. TypeOK'
    <2>1. reported' \in SUBSET (Tables \X Dates)
      BY <1>2, <1>4 DEF TypeOK
    <2>2. hadErrors' \in BOOLEAN
      BY <1>4, Zenon DEF TypeOK
    <2> QED
      BY <1>1, <1>3, <2>1, <2>2 DEF TypeOK, BeelineInv, Steps
  <1>6. ExpiryHolds' /\ DropHolds'
    BY <1>1 DEF CommandInv, ExpiryHolds, DropHolds, Return
  <1>7. DanglingIsReported'
    <2>1. CASE UNCHANGED <<hadErrors, reported>> /\ caller = "ok"
      <3>1. ~part[table][current] \/ obs[table][current] = "all"
        BY <1>1, <2>1 DEF CommandInv, DropHolds, BeelineInv, LinesHold, CallHolds
      <3> QED
        BY <1>1, <2>1, <3>1 DEF CommandInv, DanglingIsReported
    <2>2. CASE hadErrors' = TRUE /\ reported' = reported \cup {<<table, current>>}
      BY <1>1, <2>2 DEF CommandInv, DanglingIsReported
    <2> QED
      BY <1>4, <2>1, <2>2
  <1> QED
    BY <1>3, <1>5, <1>6, <1>7 DEF CommandInv

\* What was in work when the command died is in cut.
LEMMA CrashKeeps == RetentionInv /\ Crash => RetentionInv'
  <1> SUFFICES ASSUME RetentionInv, Crash PROVE TypeOK' /\ BeelineInv' /\ CommandInv'
    BY DEF RetentionInv
  <1> USE DEF RetentionInv
  <1>1. /\ step' = "off" /\ dry' = TRUE /\ table' = 1 /\ cutoff' = 0 /\ listed' = {}
        /\ current' = 0 /\ hadErrors' = FALSE /\ UNCHANGED <<today, part, reported, refused>>
    BY DEF Crash, Stop
  <1>2. BeelineInv'
    <2>1. CASE caller = "idle"
      BY <2>1, StutterKeeps DEF Crash
    <2>2. CASE caller # "idle"
      BY <2>2, ReturnKeeps DEF Crash, BeelineInv
    <2> QED
      BY <2>1, <2>2
  <1>3. caller' = "idle"
    BY DEF Crash, Return, beelineVars
  <1>4. step \in {"delete", "drop"} => current \in Dates /\ table \in Tables
    BY TableType DEF CommandInv, ExpiryHolds
  <1>5. /\ obs' \in [Tables -> [Dates -> {"none", "some", "all"}]]
        /\ cut \subseteq cut' /\ cut' \in SUBSET (Tables \X Dates)
        /\ step = "drop" => <<table, current>> \in cut'
        /\ \A t \in Tables, d \in Dates :
             obs'[t][d] # obs[t][d] => <<t, d>> \in cut'
    <2>1. CASE step \in {"delete", "drop"}
      <3>1. cut' = cut \cup {<<table, current>>}
        BY <2>1 DEF Crash
      <3>2. PICK state \in {"none", "some", "all"} : ObsBecomes(state)
        <4>1. PICK state \in {"none", "some", obs[table][current]} :
                obs' = [obs EXCEPT ![table][current] = state]
          BY <2>1 DEF Crash
        <4>2. obs[table][current] \in {"none", "some", "all"}
          BY <1>4, <2>1 DEF TypeOK
        <4>3. state \in {"none", "some", "all"} /\ ObsBecomes(state)
          BY <4>1, <4>2 DEF ObsBecomes
        <4> QED
          BY <4>3
      <3>3. /\ obs' \in [Tables -> [Dates -> {"none", "some", "all"}]]
            /\ \A t \in Tables, d \in Dates :
                 <<t, d>> # <<table, current>> => obs'[t][d] = obs[t][d]
        BY <1>4, <2>1, <3>2, ObsChanges
      <3>4. cut' \in SUBSET (Tables \X Dates)
        BY <1>4, <2>1, <3>1 DEF TypeOK
      <3> QED
        BY <3>1, <3>3, <3>4
    <2>2. CASE step \notin {"delete", "drop"}
      BY <2>2 DEF Crash, TypeOK
    <2> QED
      BY <2>1, <2>2
  <1>6. TypeOK'
    <2>1. faults' \in Nat /\ 1 \in Tables
      BY RetentionAssumption DEF Crash, Fault, TypeOK, Tables
    <2>2. dry' \in BOOLEAN /\ hadErrors' \in BOOLEAN
      BY <1>1, Zenon
    <2> QED
      BY <1>1, <1>2, <1>5, <2>1, <2>2 DEF TypeOK, BeelineInv, Steps
  <1>7. ExpiryHolds' /\ DropHolds'
    BY <1>1, <1>3 DEF ExpiryHolds, DropHolds
  <1>8. DanglingIsReported'
    BY <1>1, <1>5 DEF CommandInv, DanglingIsReported
  <1> QED
    BY <1>2, <1>6, <1>7, <1>8 DEF CommandInv

----------------------------------------------------------------------------
(* The theorems *)

\* Every step keeps the invariant.
LEMMA NextInv == RetentionInv /\ [Next]_vars => RetentionInv'
  <1> SUFFICES ASSUME RetentionInv, [Next]_vars PROVE RetentionInv'
    OBVIOUS
  <1>1. CASE UNCHANGED vars
    <2>1. UNCHANGED <<commandVars, worldVars, faults, beelineVars>>
      BY <1>1 DEF vars
    <2>2. BeelineInv'
      BY <2>1, StutterKeeps DEF RetentionInv
    <2>3. TypeOK'
      BY <2>1, <2>2 DEF RetentionInv, TypeOK, BeelineInv, commandVars, worldVars
    <2>4. CommandInv'
      BY <2>1 DEF RetentionInv, CommandInv, ExpiryHolds, DropHolds, DanglingIsReported,
         commandVars, worldVars, beelineVars
    <2> QED
      BY <2>2, <2>3, <2>4 DEF RetentionInv
  <1>2. CASE Backups
    BY <1>2, BackupKeeps DEF Backups
  <1>3. CASE Command
    BY <1>3, WalkKeeps, DeleteKeeps, DeleteFailsKeeps, DropKeeps DEF Command
  <1>4. CASE \E isDry \in BOOLEAN : StartCommand(isDry)
    BY <1>4, WalkKeeps
  <1> QED
    BY <1>1, <1>2, <1>3, <1>4, MidnightKeeps, CrashKeeps, ChildKeeps, ProceedKeeps DEF Next

\* The invariant holds in every reachable state.
THEOREM RetentionCorrect == Spec => []RetentionInv
  BY InitInv, NextInv, PTL DEF Spec

\* Every variable keeps its type.
THEOREM RetentionTypes == Spec => []TypeOK
  <1>1. RetentionInv => TypeOK
    BY DEF RetentionInv
  <1> QED
    BY <1>1, RetentionCorrect, PTL

\* Metastore entries without data are in work, reported, or left by a crash.
THEOREM NoSilentDangling == Spec => []DanglingIsReported
  <1>1. RetentionInv => DanglingIsReported
    BY DEF RetentionInv, CommandInv
  <1> QED
    BY <1>1, RetentionCorrect, PTL

\* No interleaving of child, threads and caller loses or reorders a line of a
\* beeline call that succeeds.
THEOREM BeelineLosesNothing == Spec => []OutputIsWhole
  <1>1. RetentionInv => OutputIsWhole
    BY InvImpliesWhole DEF RetentionInv
  <1> QED
    BY <1>1, RetentionCorrect, PTL

\* Child, threads and caller of a beeline call never all wait for each other.
THEOREM NobodyWaitsOnEverybody == Spec => []CallMoves
  <1>1. RetentionInv => CallMoves
    BY InvImpliesMoves DEF RetentionInv
  <1> QED
    BY <1>1, RetentionCorrect, PTL

\* A beeline call makes finitely many steps besides polling in vain.
THEOREM CallsEndOrPoll == Spec => CallsWindDown
  <1>1. RetentionInv /\ RetentionInv' /\ [Next]_vars =>
          [caller # "idle" /\ caller' # "idle" =>
             CallWork' < CallWork \/ UNCHANGED beelineVars \/ PollTimesOut]_vars
    <2> SUFFICES ASSUME RetentionInv, RetentionInv', Next, caller # "idle", caller' # "idle"
                 PROVE  CallWork' < CallWork \/ UNCHANGED beelineVars \/ PollTimesOut
      OBVIOUS
    <2> USE DEF RetentionInv
    <2>1. BeelineInv /\ BeelineTypes'
      BY DEF BeelineInv
    <2>2. CASE BeelineProceeds
      BY <2>1, <2>2, StepTakesWork DEF BeelineProceeds
    <2>3. CASE BeelineSucceeds \/ BeelineFails
      BY <2>1, <2>3, EndMoves DEF BeelineSucceeds, BeelineFails
    <2>4. CASE DeleteObjects \/ DeleteLeavesObjects \/ DropSucceeds \/ DropFails
      BY <2>4 DEF DeleteObjects, DeleteLeavesObjects, DropSucceeds, DropFails, Launch, Return
    <2>5. CASE Crash
      BY <2>5 DEF Crash, Return
    <2>6. ASSUME NEW t \in Tables, NEW d \in Dates, BackupLands(t, d) \/ BackupRegisters(t, d)
          PROVE  UNCHANGED beelineVars
      BY <2>6 DEF BackupLands, BackupRegisters
    <2>7. CASE Midnight \/ \E isDry \in BOOLEAN : StartCommand(isDry)
      BY <2>7 DEF Midnight, StartCommand
    <2>8. ASSUME NEW d \in Dates, KeepOrPretend(d) \/ BeginExpiry(d)
          PROVE  UNCHANGED beelineVars
      BY <2>8 DEF KeepOrPretend, BeginExpiry
    <2>9. CASE List \/ ListFails \/ DeleteFails \/ NextTable \/ EndCommand
      BY <2>9 DEF List, ListFails, DeleteFails, NextTable, EndCommand
    <2> QED
      BY <2>2, <2>3, <2>4, <2>5, <2>6, <2>7, <2>8, <2>9 DEF Next, Backups, Command
  <1> QED
    BY <1>1, RetentionCorrect, PTL DEF Spec, CallsWindDown

\* Objects disappear and entries are dropped in steps delete and drop only, and
\* only those of the partition in work.
LEMMA LossIsInWork ==
  ASSUME RetentionInv, Next, NEW t \in Tables, NEW d \in Dates, Loses(t, d)
  PROVE  /\ step \in {"delete", "drop"} /\ t = table /\ d = current
         /\ part[t][d] /\ ~part'[t][d] => step = "drop" /\ obs' = obs
  <1> DEFINE InWork == /\ step \in {"delete", "drop"} /\ t = table /\ d = current
                       /\ part[t][d] /\ ~part'[t][d] => step = "drop" /\ obs' = obs
  <1> USE DEF RetentionInv
  <1>1. CASE UNCHANGED <<obs, part>>
    BY <1>1 DEF Loses
  <1>2. ASSUME NEW u \in Tables, NEW e \in Dates, BackupLands(u, e) \/ BackupRegisters(u, e)
        PROVE  InWork
    <2>1. CASE BackupLands(u, e)
      <3>1. obs' = [obs EXCEPT ![u][e] = "all"] /\ part' = part
        BY <2>1 DEF BackupLands
      <3>2. obs'[t][d] = obs[t][d] \/ obs'[t][d] = "all"
        BY <3>1 DEF TypeOK
      <3> QED
        BY <3>1, <3>2 DEF Loses
    <2>2. CASE BackupRegisters(u, e)
      <3>1. part' = [part EXCEPT ![u][e] = TRUE] /\ obs' = obs
        BY <2>2 DEF BackupRegisters
      <3>2. part[t][d] => part'[t][d]
        BY <3>1 DEF TypeOK
      <3> QED
        BY <3>1, <3>2 DEF Loses
    <2> QED
      BY <1>2, <2>1, <2>2
  <1>3. CASE DeleteObjects \/ DeleteLeavesObjects \/ DeleteFails
    <2>1. /\ step = "delete" /\ part' = part /\ table \in Tables /\ current \in Dates
          /\ \E state \in {"none", "some", obs[table][current]} : ObsBecomes(state)
      BY <1>3, TableType DEF DeleteObjects, DeleteLeavesObjects, DeleteFails, CommandInv,
         ExpiryHolds
    <2> QED
      BY <2>1 DEF ObsBecomes, Loses, TypeOK
  <1>4. CASE BeelineSucceeds \/ BeelineFails
    <2>1. child \in {"running", "closed"} /\ obs' = obs /\ (DropTakesEffect \/ UNCHANGED part)
      BY <1>4 DEF BeelineSucceeds, BeelineFails, ChildEnds
    <2>2. step = "drop" /\ table \in Tables /\ current \in Dates
      BY <2>1, TableType DEF BeelineInv, LinesHold, CallHolds, CommandInv, DropHolds, ExpiryHolds
    <2> QED
      BY <2>1, <2>2 DEF DropTakesEffect, Loses, TypeOK
  <1>5. CASE Crash
    <2>1. part' = part
      BY <1>5 DEF Crash
    <2>2. CASE step \in {"delete", "drop"}
      <3>1. current \in Dates /\ table \in Tables
        BY <2>2, TableType DEF CommandInv, ExpiryHolds
      <3>2. PICK state \in {"none", "some", obs[table][current]} :
              obs' = [obs EXCEPT ![table][current] = state]
        BY <1>5, <2>2 DEF Crash
      <3> QED
        BY <2>1, <2>2, <3>1, <3>2 DEF Loses, TypeOK
    <2>3. CASE step \notin {"delete", "drop"}
      BY <1>1, <1>5, <2>1, <2>3 DEF Crash
    <2> QED
      BY <2>2, <2>3
  <1>6. CASE Midnight \/ BeelineProceeds \/ \E isDry \in BOOLEAN : StartCommand(isDry)
    BY <1>1, <1>6 DEF Midnight, BeelineProceeds, StartCommand, worldVars
  <1>7. CASE List \/ ListFails \/ NextTable \/ EndCommand \/ DropSucceeds \/ DropFails
    BY <1>1, <1>7 DEF List, ListFails, NextTable, EndCommand, DropSucceeds, DropFails, worldVars
  <1>8. ASSUME NEW e \in Dates, KeepOrPretend(e) \/ BeginExpiry(e) PROVE InWork
    BY <1>1, <1>8 DEF KeepOrPretend, BeginExpiry, worldVars
  <1> HIDE DEF InWork
  <1>9. InWork
    BY <1>2, <1>3, <1>4, <1>5, <1>6, <1>7, <1>8 DEF Next, Backups, Command, InWork
  <1> QED
    BY <1>9 DEF InWork

\* What is lost had expired by its own table's retention, and no dry run loses it.
THEOREM RetentionIsKept == Spec => OnlyExpiredIsLost
  <1>1. RetentionInv /\ [Next]_vars =>
          [\A t \in Tables, d \in Dates : Loses(t, d) => ~Young(t, d) /\ ~dry]_vars
    <2> SUFFICES ASSUME RetentionInv, Next, NEW t \in Tables, NEW d \in Dates, Loses(t, d)
                 PROVE  ~Young(t, d) /\ ~dry
      OBVIOUS
    <2>1. step \in {"delete", "drop"} /\ t = table /\ d = current
      BY LossIsInWork
    <2>2. ~dry /\ d <= cutoff /\ cutoff <= today - RetentionDays[t]
      BY <2>1 DEF RetentionInv, CommandInv, ExpiryHolds
    <2>3. d \in Nat /\ cutoff \in Int /\ today \in Nat /\ RetentionDays[t] \in Nat
      BY TableType, RetentionAssumption DEF RetentionInv
    <2> QED
      BY <2>2, <2>3 DEF Young
  <1> QED
    BY <1>1, RetentionCorrect, PTL DEF Spec, OnlyExpiredIsLost

\* When nobody backs up dates that have expired, only an unread refusal of OBS
\* makes a drop hide a whole partition.
THEOREM DropsComeLast == Backfill = FALSE => (Spec => DropHidesNothing)
  <1> SUFFICES ASSUME Backfill = FALSE PROVE Spec => DropHidesNothing
    OBVIOUS
  <1>1. RetentionInv /\ [Next]_vars =>
          [\A t \in Tables, d \in Dates :
             part[t][d] /\ ~part'[t][d] /\ obs'[t][d] = "all" => <<t, d>> \in refused]_vars
    <2> SUFFICES ASSUME RetentionInv, Next, NEW t \in Tables, NEW d \in Dates,
                        part[t][d], ~part'[t][d], obs'[t][d] = "all"
                 PROVE  <<t, d>> \in refused
      OBVIOUS
    <2>1. step = "drop" /\ t = table /\ d = current /\ obs' = obs
      BY LossIsInWork DEF Loses
    <2> QED
      BY <2>1 DEF RetentionInv, CommandInv, DropHolds
  <1> QED
    BY <1>1, RetentionCorrect, PTL DEF Spec, DropHidesNothing
=============================================================================
