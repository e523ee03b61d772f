---------------------------- MODULE RetentionProps ----------------------------
(* What retention may destroy, what it must, and what it may not hide. *)
EXTENDS Retention, BeelineProps

\* The values each variable takes.
TypeOK ==
  /\ today \in Nat /\ step \in Steps /\ dry \in BOOLEAN /\ table \in Tables
  /\ cutoff \in Int /\ listed \in SUBSET Dates /\ current \in Dates \cup {0}
  /\ hadErrors \in BOOLEAN /\ faults \in Nat
  /\ obs \in [Tables -> [Dates -> {"none", "some", "all"}]]
  /\ part \in [Tables -> [Dates -> BOOLEAN]]
  /\ reported \in SUBSET (Tables \X Dates) /\ cut \in SUBSET (Tables \X Dates)
  /\ refused \in SUBSET (Tables \X Dates)
  /\ BeelineTypes

\* No step takes objects or the metastore entry from a partition that is younger
\* than its own table's retention on the day of the step, and a dry run takes
\* nothing at all, although the cutoff and the listing are older than the
\* deletion and backups go on in between.
Loses(t, d) ==
  \/ obs[t][d] = "all" /\ obs'[t][d] # "all"
  \/ part[t][d] /\ ~part'[t][d]
OnlyExpiredIsLost ==
  [][\A t \in Tables, d \in Dates : Loses(t, d) => ~Young(t, d) /\ ~dry]_vars

\* "fixed order (OBS data first, then the Hive partition entry)": no drop hides
\* a partition whose objects are all there, unless OBS refused to delete them in
\* a response that nobody reads.
DropHidesNothing ==
  [][\A t \in Tables, d \in Dates :
       part[t][d] /\ ~part'[t][d] /\ obs'[t][d] = "all" => <<t, d>> \in refused]_vars

\* A metastore entry that points at missing data is being worked on, was
\* reported to the operator, or is what a command left that died.
DanglingIsReported ==
  \A t \in Tables, d \in Dates :
    part[t][d] /\ obs[t][d] # "all" =>
      \/ step = "drop" /\ <<table, current>> = <<t, d>>
      \/ <<t, d>> \in reported \cup cut

\* Whatever fails, finitely often, the objects of an expired partition go: what
\* an incomplete deletion leaves is listed again.  A beeline that hangs with its
\* pipes open is the one thing that stops this: nothing times it out.
ExpiredDataGoes ==
  \A t \in Tables, d \in Dates :
    (obs[t][d] # "none" /\ ~Young(t, d)) ~> (obs[t][d] = "none" \/ child = "hung")

\* Every step of a beeline call but the polls that find nothing takes from a number
\* that its launch has fixed: no call goes round in circles.
CallsWindDown ==
  [][caller # "idle" /\ caller' # "idle" =>
       CallWork' < CallWork \/ UNCHANGED beelineVars \/ PollTimesOut]_vars

----------------------------------------------------------------------------
(* The inductive invariant behind the safety properties *)

\* What is being expired had expired when its table was listed.
ExpiryHolds ==
  /\ step \in {"each", "delete", "drop"} => cutoff <= today - RetentionDays[table]
  /\ step \in {"delete", "drop"} => ~dry /\ current \in Dates /\ current <= cutoff

\* A beeline command runs in step drop only, and what its success has dropped has
\* come back only with all objects.
DropHolds ==
  /\ step = "drop" <=> caller # "idle"
  /\ step = "drop" /\ child = "exited0" =>
       ~part[table][current] \/ obs[table][current] = "all"
  /\ step = "drop" /\ obs[table][current] = "all" =>
       Backfill \/ <<table, current>> \in refused

CommandInv   == ExpiryHolds /\ DropHolds /\ DanglingIsReported
RetentionInv == TypeOK /\ BeelineInv /\ CommandInv
=============================================================================
